---- MODULE Spec2Model ----
(***************************************************************************)
(* droid2api: credential resolution and refresh engine.                    *)
(*                                                                         *)
(* The model follows src/auth.js (AuthResolver + RefreshEngine) and        *)
(* src/unnamed/part_002 (the token store, "./state.js" in the imports).    *)
(*                                                                         *)
(* JavaScript runs the engine on one thread; a call is suspended only at   *)
(* an I/O boundary. getApiKey therefore runs in at most two atomic steps:  *)
(* from its entry up to the `await fetch(...)` of refreshApiKey (or up to  *)
(* its return/throw when no exchange is needed), and from the provider's   *)
(* answer to its return/throw. Administrative operations of the token      *)
(* store are synchronous and atomic. Suspended calls are kept in the bag   *)
(* `pending`; their only live local is the request body already built.     *)
(*                                                                         *)
(* Strings are TLA+ strings. JavaScript null/undefined is the string NULL, *)
(* a value no input can take.                                              *)
(***************************************************************************)
EXTENDS Integers, Sequences, FiniteSets, Bags, TLC

NULL == "<null>"

\* JavaScript falsiness of a string-or-null value (`!value`).
Falsy(v) == v = NULL \/ v = ""

---------------------------------------------------------------------------
\* Bounds of the model.

\* Latest clock value; the clock starts at 1 (Date.now() is never 0).
MaxNow == 2
\* Number of records ever created (an id is never used twice).
MaxIds == 2
\* Number of calls suspended in an exchange at the same time.
MaxPending == 2

\* src/auth.js:14
REFRESH_INTERVAL_HOURS == 6

\* Hours that pass in one clock step: a cached token is seen fresh (no step
\* old) and stale (one step old, exactly the refresh interval).
TimeUnitHours == REFRESH_INTERVAL_HOURS

---------------------------------------------------------------------------
\* Inputs.

\* process.env.AUTH_TOKEN at process start (unset, set, blank).
AuthTokenEnv == {NULL, "s3cr3t", " "}

\* Authorization headers presented by inbound requests: the admin secret in
\* its usual form, and every kind of header (none, empty, the bare secret, the
\* secret with stray blanks, a scheme without a token, a client's own key).
AdminAuths == {"Bearer s3cr3t"}
AuthInputs ==
  {NULL, "", "s3cr3t", "Bearer  s3cr3t ", "Bearer ", "Bearer user-own-key"}

\* Secrets the operator submits through the administrative surface.
FactoryInputs == {"fk_abcdefgh1234"}
RefreshInputs == {"rt_A", " rt_B "}
LabelInputs == {NULL}
Types == {"factory", "refresh"}

\* The bounds of the resolver's environment.
ResolverMaxIds == 2
ResolverMaxPending == 1

\* An environment fixes what the outside world does in one specification:
\*   authEnv     values of process.env.AUTH_TOKEN
\*   auths       authorization headers of inbound requests
\*   values      secrets the operator adds, per kind
\*   rotates     whether the provider rotates refresh tokens
\*   maxIds, maxPending   its bounds
\*   maxNow      the latest clock value, where the clock runs
\* The whole engine, with the admin secret configured and requests that
\* present it.
EngineEnv ==
  [authEnv |-> {"s3cr3t"},
   auths   |-> AdminAuths,
   values  |-> [factory |-> {}, refresh |-> RefreshInputs \cup {"", " "}],
   rotates |-> TRUE,
   maxNow  |-> MaxNow, maxIds |-> MaxIds, maxPending |-> MaxPending]

\* The resolver's decision over every kind of presented authorization and
\* every value of the admin secret.
ResolverEnv ==
  [authEnv |-> AuthTokenEnv,
   auths   |-> AuthInputs,
   values  |-> [factory |-> FactoryInputs, refresh |-> {"rt_A"}],
   rotates |-> FALSE,
   maxIds  |-> ResolverMaxIds, maxPending |-> ResolverMaxPending]

\* The bounds of the operator's environment.
StoreMaxIds == 3
StoreMaxPending == 1

\* The token store under an operator who edits both kinds while requests
\* present the admin secret; the provider keeps refresh tokens as they are.
StoreEnv ==
  [authEnv |-> {"s3cr3t"},
   auths   |-> AdminAuths,
   values  |-> [factory |-> FactoryInputs \cup {""},
                refresh |-> RefreshInputs \cup {" "}],
   rotates |-> FALSE,
   maxIds  |-> StoreMaxIds, maxPending |-> StoreMaxPending]

---------------------------------------------------------------------------
\* String helpers (String.prototype.trim / split / slice).

CharAt(s, i) == SubSeq(s, i, i)

RECURSIVE TrimLeft(_)
TrimLeft(s) ==
  IF Len(s) > 0 /\ CharAt(s, 1) = " " THEN TrimLeft(SubSeq(s, 2, Len(s))) ELSE s

RECURSIVE TrimRight(_)
TrimRight(s) ==
  IF Len(s) > 0 /\ CharAt(s, Len(s)) = " "
  THEN TrimRight(SubSeq(s, 1, Len(s) - 1)) ELSE s

Trim(s) == TrimRight(TrimLeft(s))

\* Index of the first space of s, 0 when there is none.
FirstSpace(s) ==
  LET spaces == {i \in 1..Len(s) : CharAt(s, i) = " "}
  IN IF spaces = {} THEN 0
     ELSE CHOOSE i \in spaces : \A j \in spaces : i <= j

---------------------------------------------------------------------------
\* Token store (state.js).

VARIABLES
  AUTH_TOKEN,               \* auth.js: the admin secret, fixed at process start
  tokenStore,               \* state.js: collections and active ids
  nextId,                   \* serial of the next generated record id
  authStatus,               \* state.js: observable status summary
  currentApiKey,            \* auth.js: cached access token
  lastRefreshTime,          \* auth.js: clock value of the last successful exchange
  cachedRefreshTokenId,     \* auth.js: identity the cache belongs to
  cachedRefreshTokenValue,
  now,                      \* the clock (Date.now())
  pending,                  \* bag of getApiKey calls suspended in fetch()
  lastCall,                 \* outcome of the getApiKey call that completed last
  disk,                     \* state.js: the file at STORE_PATH
  phase,                    \* the process: boot, refreshing, running, failed, down
  lastAdmin,                \* dashboard.js: answer to the last token request
  dashboardAuthenticated,   \* dashboard.js: req.session.dashboardAuthenticated,
                            \* one flag per session
  requestLogs               \* state.js: the request log, oldest entry first

\* The sessions the session middleware keeps, one per browser.
SessionIds == {"sid-1", "sid-2"}

vars == <<AUTH_TOKEN, tokenStore, nextId, authStatus, currentApiKey,
          lastRefreshTime, cachedRefreshTokenId, cachedRefreshTokenValue,
          now, pending, lastCall, disk, phase, lastAdmin,
          dashboardAuthenticated, requestLogs>>

\* What `find(...) || null` yields when nothing matches.
NoToken == [id |-> NULL, label |-> NULL, value |-> NULL, readOnly |-> FALSE]

\* maskToken that shows only values shorter than 8 characters whole.
maskToken_Below8(value) ==
  IF Falsy(value) THEN "N/A"
  ELSE IF Len(value) < 8 THEN value
  ELSE SubSeq(value, 1, 4) \o "..." \o SubSeq(value, Len(value) - 3, Len(value))

maskToken(value) ==
  IF Falsy(value) THEN "N/A"
  ELSE IF Len(value) <= 8 THEN value
  ELSE SubSeq(value, 1, 4) \o "..." \o SubSeq(value, Len(value) - 3, Len(value))

Collection(store, type) ==
  IF type = "factory" THEN store.factoryKeys ELSE store.refreshTokens

WithCollection(store, type, coll) ==
  IF type = "factory" THEN [store EXCEPT !.factoryKeys = coll]
  ELSE [store EXCEPT !.refreshTokens = coll]

ActiveId(store, type) ==
  IF type = "factory" THEN store.activeFactoryKeyId ELSE store.activeRefreshTokenId

WithActiveId(store, type, id) ==
  IF type = "factory" THEN [store EXCEPT !.activeFactoryKeyId = id]
  ELSE [store EXCEPT !.activeRefreshTokenId = id]

\* Array.prototype.findIndex on ids / values: first match, 0 when none.
IndexOfId(coll, id) ==
  IF \E i \in 1..Len(coll) : coll[i].id = id
  THEN CHOOSE i \in 1..Len(coll) :
         coll[i].id = id /\ \A j \in 1..(i - 1) : coll[j].id # id
  ELSE 0

IndexOfValue(coll, value) ==
  IF \E i \in 1..Len(coll) : coll[i].value = value
  THEN CHOOSE i \in 1..Len(coll) :
         coll[i].value = value /\ \A j \in 1..(i - 1) : coll[j].value # value
  ELSE 0

FirstIdOrNull(coll) == IF Len(coll) > 0 /\ ~Falsy(coll[1].id) THEN coll[1].id ELSE NULL

\* `${type}-${Date.now()}-${random}`: the serial stands for the timestamp and
\* the random suffix, which make the id differ from every earlier one.
NewId(type, n) == type \o "-" \o ToString(n)

DefaultLabel(type) == IF type = "factory" THEN "Factory Token" ELSE "Refresh Token"

\* ensureToken that makes the record it created or found the active one.
ensureToken_AlwaysActivate(store, type, rawValue, label, readOnly, n) ==
  LET value == IF rawValue = NULL THEN NULL ELSE Trim(rawValue)
      coll  == Collection(store, type)
      i     == IndexOfValue(coll, value)
  IN IF Falsy(value) THEN store
     ELSE IF i # 0 THEN
       LET merged ==
             IF readOnly
             THEN [coll EXCEPT ![i].readOnly = TRUE,
                               ![i].label = IF Falsy(label) THEN @ ELSE label]
             ELSE coll
       IN WithActiveId(WithCollection(store, type, merged), type, coll[i].id)
     ELSE
       LET token == [id       |-> NewId(type, n),
                     label    |-> IF Falsy(label) THEN DefaultLabel(type) ELSE label,
                     value    |-> value,
                     readOnly |-> readOnly]
       IN WithActiveId(WithCollection(store, type, Append(coll, token)),
                       type, token.id)

\* ensureToken that never looks for a record holding the value.
ensureToken_AlwaysPush(store, type, rawValue, label, readOnly, n) ==
  LET value == IF rawValue = NULL THEN NULL ELSE Trim(rawValue)
      coll  == Collection(store, type)
      token == [id       |-> NewId(type, n),
                label    |-> IF Falsy(label) THEN DefaultLabel(type) ELSE label,
                value    |-> value,
                readOnly |-> readOnly]
      st    == WithCollection(store, type, Append(coll, token))
  IN IF Falsy(value) THEN store
     ELSE IF Falsy(ActiveId(st, type)) THEN WithActiveId(st, type, token.id) ELSE st

\* ensureToken that looks for the value as it was given, not trimmed.
ensureToken_RawCompare(store, type, rawValue, label, readOnly, n) ==
  LET value == IF rawValue = NULL THEN NULL ELSE Trim(rawValue)
      coll  == Collection(store, type)
      i     == IndexOfValue(coll, rawValue)
      activate(st, id) ==
        IF Falsy(ActiveId(st, type)) THEN WithActiveId(st, type, id) ELSE st
  IN IF Falsy(value) THEN store
     ELSE IF i # 0 THEN
       LET merged ==
             IF readOnly
             THEN [coll EXCEPT ![i].readOnly = TRUE,
                               ![i].label = IF Falsy(label) THEN @ ELSE label]
             ELSE coll
       IN activate(WithCollection(store, type, merged), coll[i].id)
     ELSE
       LET token == [id       |-> NewId(type, n),
                     label    |-> IF Falsy(label) THEN DefaultLabel(type) ELSE label,
                     value    |-> value,
                     readOnly |-> readOnly]
       IN activate(WithCollection(store, type, Append(coll, token)), token.id)

\* ensureToken: the store after the call. `n` is the serial of the id given to
\* a record it creates.
ensureToken(store, type, rawValue, label, readOnly, n) ==
  LET value == IF rawValue = NULL THEN NULL ELSE Trim(rawValue)
      coll  == Collection(store, type)
      i     == IndexOfValue(coll, value)
      activate(st, id) ==
        IF Falsy(ActiveId(st, type)) THEN WithActiveId(st, type, id) ELSE st
  IN IF Falsy(value) THEN store
     ELSE IF i # 0 THEN
       LET merged ==
             IF readOnly
             THEN [coll EXCEPT ![i].readOnly = TRUE,
                               ![i].label = IF Falsy(label) THEN @ ELSE label]
             ELSE coll
       IN activate(WithCollection(store, type, merged), coll[i].id)
     ELSE
       LET token == [id       |-> NewId(type, n),
                     label    |-> IF Falsy(label) THEN DefaultLabel(type) ELSE label,
                     value    |-> value,
                     readOnly |-> readOnly]
       IN activate(WithCollection(store, type, Append(coll, token)), token.id)

getActiveToken(store, type) ==
  LET id   == ActiveId(store, type)
      coll == Collection(store, type)
      i    == IndexOfId(coll, id)
  IN IF Falsy(id) \/ i = 0 THEN NoToken ELSE coll[i]

\* getActiveFactoryKey that searches the refresh tokens for the active
\* factory id.
getActiveFactoryKey_WrongCollection(store) ==
  LET i == IndexOfId(store.refreshTokens, store.activeFactoryKeyId)
  IN IF Falsy(store.activeFactoryKeyId) \/ i = 0 THEN NoToken
     ELSE store.refreshTokens[i]

getActiveFactoryKey(store) == getActiveToken(store, "factory")
getActiveRefreshToken(store) == getActiveToken(store, "refresh")

\* removeToken that moves the active id to the last remaining record.
removeToken_LastRemaining(store, type, id) ==
  LET coll == Collection(store, type)
      i    == IndexOfId(coll, id)
      rest == SubSeq(coll, 1, i - 1) \o SubSeq(coll, i + 1, Len(coll))
      st1  == WithCollection(store, type, rest)
  IN IF i = 0 THEN [err |-> "Token not found", store |-> store]
     ELSE IF coll[i].readOnly
       THEN [err |-> "Cannot remove read-only token", store |-> store]
     ELSE [err   |-> NULL,
           store |-> IF ActiveId(store, type) = id
                     THEN WithActiveId(st1, type,
                            IF rest = <<>> THEN NULL ELSE rest[Len(rest)].id)
                     ELSE st1]

\* removeToken that removes read-only records like any other.
removeToken_IgnoresReadOnly(store, type, id) ==
  LET coll == Collection(store, type)
      i    == IndexOfId(coll, id)
      rest == SubSeq(coll, 1, i - 1) \o SubSeq(coll, i + 1, Len(coll))
      st1  == WithCollection(store, type, rest)
  IN IF i = 0 THEN [err |-> "Token not found", store |-> store]
     ELSE [err   |-> NULL,
           store |-> IF ActiveId(store, type) = id
                     THEN WithActiveId(st1, type, FirstIdOrNull(rest))
                     ELSE st1]

\* removeToken that forgets to move the active id off the removed record.
removeToken_NoReassign(store, type, id) ==
  LET coll == Collection(store, type)
      i    == IndexOfId(coll, id)
  IN IF i = 0 THEN [err |-> "Token not found", store |-> store]
     ELSE IF coll[i].readOnly
       THEN [err |-> "Cannot remove read-only token", store |-> store]
     ELSE [err   |-> NULL,
           store |-> WithCollection(store, type,
                       SubSeq(coll, 1, i - 1) \o SubSeq(coll, i + 1, Len(coll)))]

\* removeToken: [err, store]; err is the thrown message or NULL.
removeToken(store, type, id) ==
  LET coll == Collection(store, type)
      i    == IndexOfId(coll, id)
  IN IF i = 0 THEN [err |-> "Token not found", store |-> store]
     ELSE IF coll[i].readOnly
       THEN [err |-> "Cannot remove read-only token", store |-> store]
     ELSE
       LET rest == SubSeq(coll, 1, i - 1) \o SubSeq(coll, i + 1, Len(coll))
           st1  == WithCollection(store, type, rest)
       IN [err   |-> NULL,
           store |-> IF ActiveId(store, type) = id
                     THEN WithActiveId(st1, type, FirstIdOrNull(rest))
                     ELSE st1]

\* activateToken that does not look the id up.
activateToken_Unchecked(store, type, id) ==
  [err |-> NULL, store |-> WithActiveId(store, type, id)]

\* activateToken: [err, store].
activateToken(store, type, id) ==
  IF IndexOfId(Collection(store, type), id) = 0
  THEN [err |-> "Token not found", store |-> store]
  ELSE [err |-> NULL, store |-> WithActiveId(store, type, id)]

\* updateTokenValue: [err, store].
updateTokenValue(store, type, id, value) ==
  LET coll == Collection(store, type)
      i    == IndexOfId(coll, id)
  IN IF i = 0 THEN [err |-> "Token not found", store |-> store]
     ELSE [err   |-> NULL,
           store |-> WithCollection(store, type, [coll EXCEPT ![i].value = value])]

\* updateAuthStatus: the fields of `update` overwrite those of the status.
updateAuthStatus(status, update) ==
  [f \in DOMAIN status |-> IF f \in DOMAIN update THEN update[f] ELSE status[f]]

---------------------------------------------------------------------------
\* AuthResolver and RefreshEngine (auth.js).

\* What parseAuthHeader returns for a missing header (null).
NoParse == [scheme |-> NULL, token |-> NULL]

parseAuthHeader(headerValue) ==
  IF Falsy(headerValue) THEN NoParse
  ELSE LET k == FirstSpace(headerValue)
       IN IF k = 0
          THEN [scheme |-> NULL, token |-> Trim(headerValue)]
          ELSE [scheme |-> SubSeq(headerValue, 1, k - 1),
                token  |-> Trim(SubSeq(headerValue, k + 1, Len(headerValue)))]

\* parseAuthHeader of the headers that requests present, computed once.
ParsedHeaders == [h \in AuthInputs \cup AdminAuths |-> parseAuthHeader(h)]

\* const AUTH_TOKEN = process.env.AUTH_TOKEN ? process.env.AUTH_TOKEN.trim() : null
AuthTokenOf(env) == IF Falsy(env) THEN NULL ELSE Trim(env)

\* isAuthorizedForServerTokens without the `!AUTH_TOKEN` guard.
isAuthorizedForServerTokens_NoGuard(clientAuthorization) ==
  LET parsed == ParsedHeaders[clientAuthorization]
  IN parsed # NoParse /\ parsed.token = AUTH_TOKEN

\* isAuthorizedForServerTokens that accepts any token once a secret is
\* configured.
isAuthorizedForServerTokens_AnyToken(clientAuthorization) ==
  IF Falsy(AUTH_TOKEN) THEN FALSE
  ELSE ParsedHeaders[clientAuthorization] # NoParse

isAuthorizedForServerTokens(clientAuthorization) ==
  IF Falsy(AUTH_TOKEN) THEN FALSE
  ELSE LET parsed == ParsedHeaders[clientAuthorization]
       IN parsed # NoParse /\ parsed.token = AUTH_TOKEN

\* new Date().toISOString(): a clock reading as text.
Iso(t) == "T" \o ToString(t)

\* shouldRefresh that waits until the token is older than the interval.
shouldRefresh_Older(last, t) ==
  IF last = 0 THEN TRUE
  ELSE (t - last) * TimeUnitHours > REFRESH_INTERVAL_HOURS

\* lastRefreshTime is 0 while the code holds null: `!lastRefreshTime` reads
\* both alike.
shouldRefresh(last, t) ==
  IF last = 0 THEN TRUE
  ELSE (t - last) * TimeUnitHours >= REFRESH_INTERVAL_HOURS

\* syncRefreshTokenCache that adopts the new identity but keeps the cached
\* access token.
syncRefreshTokenCache_KeepKey ==
  LET activeRefresh == getActiveRefreshToken(tokenStore)
  IN IF activeRefresh = NoToken
     THEN [id |-> NULL, value |-> NULL, key |-> NULL, time |-> 0,
           status |-> authStatus, active |-> NoToken]
     ELSE [id |-> activeRefresh.id, value |-> activeRefresh.value,
           key |-> currentApiKey, time |-> lastRefreshTime,
           status |-> authStatus, active |-> activeRefresh]

\* syncRefreshTokenCache: the cache and status after the call, and the active
\* record it returns.
syncRefreshTokenCache ==
  LET activeRefresh == getActiveRefreshToken(tokenStore)
  IN IF activeRefresh = NoToken
     THEN [id |-> NULL, value |-> NULL, key |-> NULL, time |-> 0,
           status |-> authStatus, active |-> NoToken]
     ELSE IF cachedRefreshTokenId # activeRefresh.id
             \/ cachedRefreshTokenValue # activeRefresh.value
     THEN [id |-> activeRefresh.id, value |-> activeRefresh.value,
           key |-> NULL, time |-> 0,
           status |-> updateAuthStatus(authStatus,
                                       [activeAccessTokenSnippet |-> NULL]),
           active |-> activeRefresh]
     ELSE [id |-> cachedRefreshTokenId, value |-> cachedRefreshTokenValue,
           key |-> currentApiKey, time |-> lastRefreshTime,
           status |-> authStatus, active |-> activeRefresh]

\* The provider's answers to an exchange that sent refresh token `sent`.
\* The access token names the refresh token it was issued for. A rotating
\* provider replaces a refresh token once; the replacement is not rotated again.
AccessTokenFor(sent) == "at:" \o sent
Rotated(sent) == sent \o "+"
IsRotated(sent) == \E i \in 1..Len(sent) : CharAt(sent, i) = "+"

Responses(sent, rotates) ==
  {[kind |-> "transport", access_token |-> NULL, refresh_token |-> NULL],
   [kind |-> "http_error", access_token |-> NULL, refresh_token |-> NULL],
   [kind |-> "ok", access_token |-> NULL, refresh_token |-> NULL],
   [kind |-> "ok", access_token |-> AccessTokenFor(sent), refresh_token |-> NULL]}
  \cup
  IF rotates /\ ~IsRotated(sent)
  THEN {[kind |-> "ok", access_token |-> AccessTokenFor(sent),
         refresh_token |-> Rotated(sent)]}
  ELSE {}

ErrorMessage(resp) ==
  IF resp.kind = "transport" THEN "request failed"
  ELSE "Failed to refresh token: 401"

Returned(auth, header, source, snippet) ==
  [auth |-> auth, outcome |-> "return", header |-> header, source |-> source,
   tokenSnippet |-> snippet, status |-> NULL, message |-> NULL]

Thrown(auth, status, message) ==
  [auth |-> auth, outcome |-> "throw", header |-> NULL, source |-> NULL,
   tokenSnippet |-> NULL, status |-> status, message |-> message]

NoCall ==
  [auth |-> NULL, outcome |-> "none", header |-> NULL, source |-> NULL,
   tokenSnippet |-> NULL, status |-> NULL, message |-> NULL]

\* The tail of getApiKey that stamps the status with the time of its end.
ReturnRefresh_ResumeTime(auth, key, status, timestamp) ==
  LET header  == "Bearer " \o key
      snippet == maskToken(key)
  IN /\ authStatus' = updateAuthStatus(status,
                        [lastSource |-> "refresh", lastUsedAt |-> Iso(now),
                         activeAccessTokenSnippet |-> snippet])
     /\ lastCall' = Returned(auth, header, "refresh", snippet)

\* The tail of getApiKey once ensureAccessTokenValid has returned: lines 196-199.
ReturnRefresh(auth, key, status, timestamp) ==
  LET header  == "Bearer " \o key
      snippet == maskToken(key)
  IN /\ authStatus' = updateAuthStatus(status,
                        [lastSource |-> "refresh", lastUsedAt |-> Iso(timestamp),
                         activeAccessTokenSnippet |-> snippet])
     /\ lastCall' = Returned(auth, header, "refresh", snippet)

\* getApiKey for a caller authorized for server tokens (lines 184-205), from
\* its entry to its first suspension or to its end.
ServerCredential(clientAuthorization, maxPending) ==
  LET timestamp == now
      activeFactory == getActiveFactoryKey(tokenStore)
      sync == syncRefreshTokenCache
  IN IF activeFactory # NoToken THEN
       LET header  == "Bearer " \o activeFactory.value
           snippet == maskToken(activeFactory.value)
       IN /\ authStatus' = updateAuthStatus(authStatus,
                             [lastSource |-> "factory",
                              lastUsedAt |-> Iso(timestamp),
                              activeAccessTokenSnippet |-> snippet])
          /\ lastCall' = Returned(clientAuthorization, header, "factory", snippet)
          /\ UNCHANGED <<currentApiKey, lastRefreshTime, cachedRefreshTokenId,
                         cachedRefreshTokenValue, pending>>
     ELSE
       /\ cachedRefreshTokenId' = sync.id
       /\ cachedRefreshTokenValue' = sync.value
       /\ currentApiKey' = sync.key
       /\ lastRefreshTime' = sync.time
       /\ IF sync.active = NoToken THEN
            /\ authStatus' = sync.status
            /\ lastCall' = Thrown(clientAuthorization, "503",
                             "Server-managed tokens are not configured")
            /\ pending' = pending
          ELSE IF Falsy(sync.value) THEN
            \* ensureAccessTokenValid, line 139
            /\ authStatus' = sync.status
            /\ lastCall' = Thrown(clientAuthorization, "401",
                             "No refresh token configured")
            /\ pending' = pending
          ELSE IF Falsy(sync.key) \/ shouldRefresh(sync.time, now) THEN
            \* refreshApiKey up to `await fetch(...)`
            /\ BagCardinality(pending) < maxPending
            /\ authStatus' = updateAuthStatus(sync.status,
                               [lastRefreshStatus |-> "in-progress",
                                lastRefreshError |-> NULL])
            /\ pending' = pending (+) SetToBag({[auth          |-> clientAuthorization,
                                                 timestamp     |-> timestamp,
                                                 refresh_token |-> sync.value,
                                                 startId       |-> sync.id]})
            /\ lastCall' = lastCall
          ELSE
            /\ ReturnRefresh(clientAuthorization, sync.key, sync.status, timestamp)
            /\ pending' = pending

\* getApiKey for any other caller (lines 207-216).
ClientCredential(clientAuthorization) ==
  /\ UNCHANGED <<currentApiKey, lastRefreshTime, cachedRefreshTokenId,
                 cachedRefreshTokenValue, pending>>
  /\ IF ~Falsy(clientAuthorization) THEN
       LET parsed  == ParsedHeaders[clientAuthorization]
           snippet == IF parsed # NoParse THEN maskToken(parsed.token) ELSE "N/A"
       IN /\ authStatus' = updateAuthStatus(authStatus,
                             [lastSource |-> "client", lastUsedAt |-> Iso(now),
                              lastClientTokenSnippet |-> snippet])
          /\ lastCall' = Returned(clientAuthorization, clientAuthorization,
                                  "client", snippet)
     ELSE
       /\ authStatus' = authStatus
       /\ lastCall' = Thrown(clientAuthorization, "401",
                             "No authorization available")

\* getApiKey that serves a request without authorization from the server's
\* credentials.
getApiKey_ServerFallback(clientAuthorization, maxPending) ==
  IF isAuthorizedForServerTokens(clientAuthorization) \/ Falsy(clientAuthorization)
  THEN ServerCredential(clientAuthorization, maxPending)
  ELSE ClientCredential(clientAuthorization)

\* getApiKey that passes the presented authorization through when no server
\* credential is configured.
getApiKey_ClientFallback(clientAuthorization, maxPending) ==
  IF /\ isAuthorizedForServerTokens(clientAuthorization)
     /\ (getActiveFactoryKey(tokenStore) # NoToken
         \/ getActiveRefreshToken(tokenStore) # NoToken)
  THEN ServerCredential(clientAuthorization, maxPending)
  ELSE ClientCredential(clientAuthorization)

\* getApiKey that serves no request while an exchange is in flight.
getApiKey_WaitsForExchange(clientAuthorization, maxPending) ==
  /\ pending = EmptyBag
  /\ IF isAuthorizedForServerTokens(clientAuthorization)
     THEN ServerCredential(clientAuthorization, maxPending)
     ELSE ClientCredential(clientAuthorization)

getApiKey(clientAuthorization, maxPending) ==
  IF isAuthorizedForServerTokens(clientAuthorization)
  THEN ServerCredential(clientAuthorization, maxPending)
  ELSE ClientCredential(clientAuthorization)

\* refreshApiKey that drops the cached access token when the exchange fails.
refreshApiKeyResume_ClearsOnFailure(p, resp) ==
  IF resp.kind # "ok" THEN
    \* catch: the failure is recorded and rethrown to the caller of getApiKey
    /\ authStatus' = updateAuthStatus(authStatus,
                       [lastRefreshAt |-> Iso(now), lastRefreshStatus |-> "error",
                        lastRefreshError |-> ErrorMessage(resp)])
    /\ lastCall' = Thrown(p.auth, NULL, ErrorMessage(resp))
    /\ currentApiKey' = NULL
    /\ lastRefreshTime' = 0
    /\ UNCHANGED <<tokenStore, cachedRefreshTokenId, cachedRefreshTokenValue>>
  ELSE
    LET rotate == ~Falsy(resp.refresh_token) /\ ~Falsy(cachedRefreshTokenId)
        upd    == updateTokenValue(tokenStore, "refresh", cachedRefreshTokenId,
                                   resp.refresh_token)
        act    == activateToken(upd.store, "refresh", cachedRefreshTokenId)
        ok     == updateAuthStatus(authStatus,
                    [lastRefreshAt |-> Iso(now), lastRefreshStatus |-> "success",
                     lastRefreshError |-> NULL,
                     activeAccessTokenSnippet |-> maskToken(resp.access_token)])
    IN /\ currentApiKey' = resp.access_token
       /\ lastRefreshTime' = now
       /\ cachedRefreshTokenId' = cachedRefreshTokenId
       /\ cachedRefreshTokenValue' =
            IF rotate THEN resp.refresh_token ELSE cachedRefreshTokenValue
       /\ IF rotate /\ upd.err # NULL THEN
            \* updateTokenValue threw inside the try block
            /\ tokenStore' = tokenStore
            /\ authStatus' = updateAuthStatus(authStatus,
                               [lastRefreshAt |-> Iso(now),
                                lastRefreshStatus |-> "error",
                                lastRefreshError |-> upd.err])
            /\ lastCall' = Thrown(p.auth, NULL, upd.err)
          ELSE
            /\ tokenStore' = IF rotate THEN act.store ELSE tokenStore
            /\ IF Falsy(resp.access_token) THEN
                 \* ensureAccessTokenValid, line 147
                 /\ authStatus' = ok
                 /\ lastCall' = Thrown(p.auth, "500",
                                  "Refresh token did not return access token")
               ELSE ReturnRefresh(p.auth, resp.access_token, ok, p.timestamp)

\* getApiKey that returns a header without a token when the provider sent none.
refreshApiKeyResume_ReturnsEmpty(p, resp) ==
  IF resp.kind # "ok" THEN
    \* catch: the failure is recorded and rethrown to the caller of getApiKey
    /\ authStatus' = updateAuthStatus(authStatus,
                       [lastRefreshAt |-> Iso(now), lastRefreshStatus |-> "error",
                        lastRefreshError |-> ErrorMessage(resp)])
    /\ lastCall' = Thrown(p.auth, NULL, ErrorMessage(resp))
    /\ UNCHANGED <<tokenStore, currentApiKey, lastRefreshTime,
                   cachedRefreshTokenId, cachedRefreshTokenValue>>
  ELSE
    LET rotate == ~Falsy(resp.refresh_token) /\ ~Falsy(cachedRefreshTokenId)
        upd    == updateTokenValue(tokenStore, "refresh", cachedRefreshTokenId,
                                   resp.refresh_token)
        act    == activateToken(upd.store, "refresh", cachedRefreshTokenId)
        ok     == updateAuthStatus(authStatus,
                    [lastRefreshAt |-> Iso(now), lastRefreshStatus |-> "success",
                     lastRefreshError |-> NULL,
                     activeAccessTokenSnippet |-> maskToken(resp.access_token)])
    IN /\ currentApiKey' = resp.access_token
       /\ lastRefreshTime' = now
       /\ cachedRefreshTokenId' = cachedRefreshTokenId
       /\ cachedRefreshTokenValue' =
            IF rotate THEN resp.refresh_token ELSE cachedRefreshTokenValue
       /\ IF rotate /\ upd.err # NULL THEN
            \* updateTokenValue threw inside the try block
            /\ tokenStore' = tokenStore
            /\ authStatus' = updateAuthStatus(authStatus,
                               [lastRefreshAt |-> Iso(now),
                                lastRefreshStatus |-> "error",
                                lastRefreshError |-> upd.err])
            /\ lastCall' = Thrown(p.auth, NULL, upd.err)
          ELSE
            /\ tokenStore' = IF rotate THEN act.store ELSE tokenStore
            /\ IF Falsy(resp.access_token) THEN
                 \* ensureAccessTokenValid, line 147
                 /\ authStatus' = ok
                 /\ lastCall' = Returned(p.auth, "Bearer ", "refresh", "N/A")
               ELSE ReturnRefresh(p.auth, resp.access_token, ok, p.timestamp)

\* refreshApiKey from the provider's answer to the end of the getApiKey call
\* that awaits it (auth.js lines 103-135, 147-152, 196-199).
refreshApiKeyResume(p, resp) ==
  IF resp.kind # "ok" THEN
    \* catch: the failure is recorded and rethrown to the caller of getApiKey
    /\ authStatus' = updateAuthStatus(authStatus,
                       [lastRefreshAt |-> Iso(now), lastRefreshStatus |-> "error",
                        lastRefreshError |-> ErrorMessage(resp)])
    /\ lastCall' = Thrown(p.auth, NULL, ErrorMessage(resp))
    /\ UNCHANGED <<tokenStore, currentApiKey, lastRefreshTime,
                   cachedRefreshTokenId, cachedRefreshTokenValue>>
  ELSE
    LET rotate == ~Falsy(resp.refresh_token) /\ ~Falsy(cachedRefreshTokenId)
        upd    == updateTokenValue(tokenStore, "refresh", cachedRefreshTokenId,
                                   resp.refresh_token)
        act    == activateToken(upd.store, "refresh", cachedRefreshTokenId)
        ok     == updateAuthStatus(authStatus,
                    [lastRefreshAt |-> Iso(now), lastRefreshStatus |-> "success",
                     lastRefreshError |-> NULL,
                     activeAccessTokenSnippet |-> maskToken(resp.access_token)])
    IN /\ currentApiKey' = resp.access_token
       /\ lastRefreshTime' = now
       /\ cachedRefreshTokenId' = cachedRefreshTokenId
       /\ cachedRefreshTokenValue' =
            IF rotate THEN resp.refresh_token ELSE cachedRefreshTokenValue
       /\ IF rotate /\ upd.err # NULL THEN
            \* updateTokenValue threw inside the try block
            /\ tokenStore' = tokenStore
            /\ authStatus' = updateAuthStatus(authStatus,
                               [lastRefreshAt |-> Iso(now),
                                lastRefreshStatus |-> "error",
                                lastRefreshError |-> upd.err])
            /\ lastCall' = Thrown(p.auth, NULL, upd.err)
          ELSE
            /\ tokenStore' = IF rotate THEN act.store ELSE tokenStore
            /\ IF Falsy(resp.access_token) THEN
                 \* ensureAccessTokenValid, line 147
                 /\ authStatus' = ok
                 /\ lastCall' = Thrown(p.auth, "500",
                                  "Refresh token did not return access token")
               ELSE ReturnRefresh(p.auth, resp.access_token, ok, p.timestamp)

---------------------------------------------------------------------------
\* The state machine.

InitialStatus(token) ==
  [authTokenConfigured      |-> ~Falsy(token),
   lastSource               |-> "none",
   lastUsedAt               |-> NULL,
   lastRefreshAt            |-> NULL,
   lastRefreshStatus        |-> NULL,
   lastRefreshError         |-> NULL,
   activeAccessTokenSnippet |-> NULL,
   lastClientTokenSnippet   |-> NULL]

EmptyStore ==
  [factoryKeys |-> <<>>, refreshTokens |-> <<>>,
   activeFactoryKeyId |-> NULL, activeRefreshTokenId |-> NULL]

\* The file at STORE_PATH. `kind` tells what a reader finds there:
\*   missing      no file
\*   unparseable  text that JSON.parse rejects
\*   partial      the beginning of a store, cut short while it was written
\*   store        a serialized store
\*   nullRecord   {"factoryKeys": [null], "activeFactoryKeyId": "factory-0"}
FileOf(kind, store) == [kind |-> kind, store |-> store]

\* persistStore: writeFileSync(STORE_PATH, JSON.stringify(tokenStore)) run to
\* its end.
persistStore(store) == FileOf("store", store)

\* The last operation on the token store that the operator can observe: the
\* request (op, type, arg), its answer (status, error), and the store it met
\* (sizeBefore records of both kinds, activeBefore the kind's active id).
Observed(op, type, arg, status, error, store) ==
  [op |-> op, type |-> type, arg |-> arg, status |-> status, error |-> error,
   sizeBefore |-> Len(store.factoryKeys) + Len(store.refreshTokens),
   activeBefore |-> IF type = NULL THEN NULL ELSE ActiveId(store, type)]

\* The dashboard has answered no token request yet.
NoAdmin ==
  [op |-> "none", type |-> NULL, arg |-> NULL, status |-> NULL, error |-> NULL,
   sizeBefore |-> 0, activeBefore |-> NULL]

\* The process after initializeAuth() with no persisted store, no environment
\* tokens and no legacy credential file.
Init(env) ==
  /\ AUTH_TOKEN \in {AuthTokenOf(e) : e \in env.authEnv}
  /\ dashboardAuthenticated = [s \in SessionIds |-> FALSE]
  /\ requestLogs = <<>>
  /\ tokenStore = EmptyStore
  /\ nextId = 1
  /\ authStatus = InitialStatus(AUTH_TOKEN)
  /\ currentApiKey = NULL
  /\ lastRefreshTime = 0
  /\ cachedRefreshTokenId = NULL
  /\ cachedRefreshTokenValue = NULL
  /\ now = 1
  /\ pending = EmptyBag
  /\ lastCall = NoCall
  /\ disk = persistStore(EmptyStore)
  /\ phase = "running"
  /\ lastAdmin = NoAdmin

\* An inbound proxied request asks for its upstream credential.
ResolveStep(a, env) ==
  /\ UNCHANGED <<AUTH_TOKEN, requestLogs, dashboardAuthenticated, tokenStore, nextId, now, disk, phase, lastAdmin>>
  /\ getApiKey(a, env.maxPending)

Resolve(env) == \E a \in env.auths : ResolveStep(a, env)

\* The answer makes refreshApiKey write a rotated refresh token back:
\* updateTokenValue (line 114) found the record and persisted the store.
RotationWrites(resp) ==
  /\ resp.kind = "ok"
  /\ ~Falsy(resp.refresh_token) /\ ~Falsy(cachedRefreshTokenId)
  /\ updateTokenValue(tokenStore, "refresh", cachedRefreshTokenId,
                      resp.refresh_token).err = NULL

\* A completion that sends the exchange again when it has failed.
CompletionStep_Retry(p, resp) ==
  /\ pending' = IF resp.kind # "ok" THEN pending ELSE pending (-) SetToBag({p})
  /\ refreshApiKeyResume(p, resp)
  /\ disk' = IF RotationWrites(resp) THEN persistStore(tokenStore') ELSE disk
  /\ UNCHANGED <<AUTH_TOKEN, requestLogs, dashboardAuthenticated, nextId, now, phase, lastAdmin>>

\* The provider answers one suspended exchange.
CompletionStep(p, resp) ==
  /\ pending' = pending (-) SetToBag({p})
  /\ refreshApiKeyResume(p, resp)
  /\ disk' = IF RotationWrites(resp) THEN persistStore(tokenStore') ELSE disk
  /\ UNCHANGED <<AUTH_TOKEN, requestLogs, dashboardAuthenticated, nextId, now, phase, lastAdmin>>

ExchangeCompletes(env) ==
  \E p \in BagToSet(pending) : \E resp \in Responses(p.refresh_token, env.rotates) :
    CompletionStep(p, resp)

\* addToken(type, value, label)
AddToken(env) ==
  \E type \in Types : \E value \in env.values[type] : \E label \in LabelInputs :
    LET st == ensureToken(tokenStore, type, value, label, FALSE, nextId)
        created == Len(Collection(st, type)) > Len(Collection(tokenStore, type))
    IN /\ created => nextId <= env.maxIds
       /\ tokenStore' = st
       /\ nextId' = IF created THEN nextId + 1 ELSE nextId
       /\ disk' = persistStore(st)
       /\ UNCHANGED <<AUTH_TOKEN, requestLogs, dashboardAuthenticated, authStatus, currentApiKey, lastRefreshTime,
                      cachedRefreshTokenId, cachedRefreshTokenValue, now,
                      pending, lastCall, phase, lastAdmin>>

\* Ids an administrative request can name: those of the store, and one that
\* names no record.
IdInputs ==
  {tokenStore.factoryKeys[i].id : i \in 1..Len(tokenStore.factoryKeys)}
  \cup {tokenStore.refreshTokens[i].id : i \in 1..Len(tokenStore.refreshTokens)}
  \cup {"no-such-id"}

\* removeToken(type, id)
RemoveToken ==
  \E type \in Types : \E id \in IdInputs :
    /\ tokenStore' = removeToken(tokenStore, type, id).store
    /\ disk' = IF removeToken(tokenStore, type, id).err = NULL
               THEN persistStore(tokenStore') ELSE disk
    /\ UNCHANGED <<AUTH_TOKEN, requestLogs, dashboardAuthenticated, nextId, authStatus, currentApiKey,
                   lastRefreshTime, cachedRefreshTokenId,
                   cachedRefreshTokenValue, now, pending, lastCall,
                   phase, lastAdmin>>

\* activateToken(type, id)
ActivateToken ==
  \E type \in Types : \E id \in IdInputs :
    /\ tokenStore' = activateToken(tokenStore, type, id).store
    /\ disk' = IF activateToken(tokenStore, type, id).err = NULL
               THEN persistStore(tokenStore') ELSE disk
    /\ UNCHANGED <<AUTH_TOKEN, requestLogs, dashboardAuthenticated, nextId, authStatus, currentApiKey,
                   lastRefreshTime, cachedRefreshTokenId,
                   cachedRefreshTokenValue, now, pending, lastCall,
                   phase, lastAdmin>>

\* Time passes.
Tick(env) ==
  /\ now < env.maxNow
  /\ now' = now + 1
  /\ UNCHANGED <<AUTH_TOKEN, requestLogs, dashboardAuthenticated, tokenStore, nextId, authStatus, currentApiKey,
                 lastRefreshTime, cachedRefreshTokenId, cachedRefreshTokenValue,
                 pending, lastCall, disk, phase, lastAdmin>>

\* The engine while the clock stands still.
NextTimeless(env) ==
  \/ Resolve(env)
  \/ ExchangeCompletes(env)
  \/ AddToken(env)
  \/ RemoveToken
  \/ ActivateToken

Next(env) ==
  \/ NextTimeless(env)
  \/ Tick(env)

\* The engine under requests that present the admin secret.
Spec == Init(EngineEnv) /\ [][Next(EngineEnv)]_vars

\* The resolver under every kind of request, within one clock reading.
SpecResolver == Init(ResolverEnv) /\ [][NextTimeless(ResolverEnv)]_vars

\* The token store under the operator's edits, within one clock reading.
SpecStore == Init(StoreEnv) /\ [][NextTimeless(StoreEnv)]_vars

---------------------------------------------------------------------------
\* The process from its start: startup, the dashboard's token routes, stops
\* and crashes.

\* The bounds of the dashboard's environment.
DashMaxIds == 2

\* What startup finds in ~/.factory/auth.json.
NoLegacy == [kind |-> "missing", refresh_token |-> NULL, access_token |-> NULL]
LegacyFiles ==
  {NoLegacy,
   [kind |-> "unreadable", refresh_token |-> NULL, access_token |-> NULL],
   [kind |-> "json", refresh_token |-> "rt_123456", access_token |-> NULL]}

\* The file STORE_PATH holds {"factoryKeys": [null], "activeFactoryKeyId":
\* "factory-0"}; NoToken stands for the null entry.
NullRecordStore ==
  [factoryKeys |-> <<NoToken>>, refreshTokens |-> <<>>,
   activeFactoryKeyId |-> "factory-0", activeRefreshTokenId |-> NULL]

\* The dashboard's environment:
\*   files       what STORE_PATH holds when the process first starts
\*   envFactory, envRefresh   process.env.FACTORY_API_KEY, DROID_REFRESH_KEY
\*   legacy      what ~/.factory/auth.json holds
\*   labels      labels the operator gives
DashEnv ==
  [authEnv |-> {"s3cr3t"},
   values  |-> [factory |-> {"12345678", " 12345678", " "},
                refresh |-> {"rt_123456", ""}],
   labels  |-> {NULL},
   rotates |-> TRUE,
   maxIds  |-> DashMaxIds,
   files   |-> {FileOf("missing", EmptyStore), FileOf("unparseable", EmptyStore),
                FileOf("nullRecord", NullRecordStore)},
   envFactory |-> {NULL, "fk_abcdefgh1234"},
   envRefresh |-> {NULL, " "},
   legacy     |-> LegacyFiles]

\* loadStore (lines 62-77): the store read from the file; the module's initial
\* value when there is no file or JSON.parse throws.
loadStore(file) ==
  IF file.kind \in {"store", "nullRecord"}
  THEN [factoryKeys   |-> file.store.factoryKeys,
        refreshTokens |-> file.store.refreshTokens,
        activeFactoryKeyId |->
          IF Falsy(file.store.activeFactoryKeyId) THEN NULL
          ELSE file.store.activeFactoryKeyId,
        activeRefreshTokenId |->
          IF Falsy(file.store.activeRefreshTokenId) THEN NULL
          ELSE file.store.activeRefreshTokenId]
  ELSE EmptyStore

\* Records of both kinds in a store.
StoreSize(store) == Len(store.factoryKeys) + Len(store.refreshTokens)

\* Array.prototype.find over a collection that holds null: the callback reads
\* a property of null and throws TypeError.
FindThrows(store, type) ==
  \E i \in 1..Len(Collection(store, type)) : Collection(store, type)[i] = NoToken

\* hydrateFromEnvironment for one variable (lines 140-143 / 144-147).
hydrate(store, type, envValue, label, n) ==
  IF ~Falsy(envValue) /\ Trim(envValue) # ""
  THEN ensureToken(store, type, Trim(envValue), label, TRUE, n)
  ELSE store

\* loadLegacyFactoryToken (lines 79-97): a failed read is caught.
loadLegacyFactoryToken(store, legacy, n) ==
  IF legacy.kind # "json" THEN store
  ELSE LET st1 == IF ~Falsy(legacy.refresh_token)
                  THEN ensureToken(store, "refresh", legacy.refresh_token,
                                   "Factory Refresh Token", TRUE, n)
                  ELSE store
           n1  == n + StoreSize(st1) - StoreSize(store)
       IN IF ~Falsy(legacy.access_token)
          THEN ensureToken(st1, "factory", legacy.access_token,
                           "Factory Access Token", TRUE, n1)
          ELSE st1

\* initializeDashboardState (lines 150-160): the store after load and merge.
\* `n` is the serial of the first id it generates.
MergedStore(file, envFactory, envRefresh, legacy, n) ==
  LET st0 == loadStore(file)
      st1 == hydrate(st0, "factory", envFactory, "FACTORY_API_KEY (env)", n)
      n1  == n + StoreSize(st1) - StoreSize(st0)
      st2 == hydrate(st1, "refresh", envRefresh, "DROID_REFRESH_KEY (env)", n1)
      n2  == n1 + StoreSize(st2) - StoreSize(st1)
  IN loadLegacyFactoryToken(st2, legacy, n2)

\* A TypeError escapes initializeAuth: hydrateFromEnvironment searches a
\* collection that holds null (part_002:107), or getActiveFactoryKey /
\* getActiveRefreshToken do (auth.js:159, 164).
StartupThrows(file, envFactory, envRefresh) ==
  LET st0 == loadStore(file)
  IN \/ FindThrows(st0, "factory")
        /\ (hydrate(EmptyStore, "factory", envFactory, NULL, 0) # EmptyStore
            \/ ~Falsy(st0.activeFactoryKeyId))
     \/ FindThrows(st0, "refresh")
        /\ (hydrate(EmptyStore, "refresh", envRefresh, NULL, 0) # EmptyStore
            \/ ~Falsy(st0.activeRefreshTokenId))

\* The memory of a process that has not run initializeAuth yet.
FreshMemory ==
  /\ tokenStore' = EmptyStore
  /\ authStatus' = InitialStatus(NULL)
  /\ currentApiKey' = NULL
  /\ lastRefreshTime' = 0
  /\ cachedRefreshTokenId' = NULL
  /\ cachedRefreshTokenValue' = NULL
  /\ pending' = EmptyBag
  /\ lastCall' = NoCall
  /\ lastAdmin' = NoAdmin
  /\ requestLogs' = <<>>

\* The records of a kind in a store.
RecordsOf(store, type) ==
  LET coll == Collection(store, type) IN {coll[i] : i \in 1..Len(coll)}

\* The process has not started yet.
InitBoot(env) ==
  /\ AUTH_TOKEN \in {AuthTokenOf(e) : e \in env.authEnv}
  /\ dashboardAuthenticated = [s \in SessionIds |-> FALSE]
  /\ requestLogs = <<>>
  /\ tokenStore = EmptyStore
  /\ nextId = 1
  /\ authStatus = InitialStatus(NULL)
  /\ currentApiKey = NULL
  /\ lastRefreshTime = 0
  /\ cachedRefreshTokenId = NULL
  /\ cachedRefreshTokenValue = NULL
  /\ now = 1
  /\ pending = EmptyBag
  /\ lastCall = NoCall
  /\ disk \in env.files
  /\ phase = "boot"
  /\ lastAdmin = NoAdmin

\* initializeAuth() from its call to its first suspension or to its end, under
\* one setting of the environment variables and of the legacy credential file.
StartupStep(envFactory, envRefresh, legacy, env) ==
  /\ phase \in {"boot", "down"}
  /\ UNCHANGED <<AUTH_TOKEN, requestLogs, dashboardAuthenticated, now, currentApiKey, lastRefreshTime, pending,
                 lastCall>>
  /\ lastAdmin' = Observed("startup", NULL, <<envFactory, legacy.refresh_token>>,
                           NULL, NULL, loadStore(disk))
  /\ IF StartupThrows(disk, envFactory, envRefresh) THEN
       \* the rejection of initializeAuth() ends the start
       /\ phase' = "failed"
       /\ UNCHANGED <<tokenStore, nextId, authStatus, cachedRefreshTokenId,
                      cachedRefreshTokenValue, disk>>
     ELSE
       LET st == MergedStore(disk, envFactory, envRefresh, legacy, nextId)
           n  == nextId + StoreSize(st) - StoreSize(loadStore(disk))
           activeRefresh == getActiveRefreshToken(st)
           configured == updateAuthStatus(authStatus,
                           [authTokenConfigured |-> ~Falsy(AUTH_TOKEN)])
       IN /\ n <= env.maxIds + 1
          /\ tokenStore' = st
          /\ nextId' = n
          /\ disk' = persistStore(st)
          /\ IF activeRefresh = NoToken THEN
               /\ authStatus' = configured
               /\ cachedRefreshTokenId' = NULL
               /\ cachedRefreshTokenValue' = NULL
               /\ phase' = "running"
             ELSE
               \* syncRefreshTokenCache, then refreshApiKey up to `await fetch`
               /\ cachedRefreshTokenId' = activeRefresh.id
               /\ cachedRefreshTokenValue' = activeRefresh.value
               /\ authStatus' = updateAuthStatus(configured,
                                  [activeAccessTokenSnippet |-> NULL,
                                   lastRefreshStatus |-> "in-progress",
                                   lastRefreshError |-> NULL])
               /\ phase' = "refreshing"

Startup(env) ==
  \E envFactory \in env.envFactory : \E envRefresh \in env.envRefresh :
    \E legacy \in env.legacy : StartupStep(envFactory, envRefresh, legacy, env)

\* The provider issues a rotated refresh token to one exchange only: no record
\* holds it yet.
FreshFor(resp, store) ==
  Falsy(resp.refresh_token)
  \/ \A r \in RecordsOf(store, "refresh") : r.value # resp.refresh_token

\* The provider answers the exchange that initializeAuth awaits (auth.js lines
\* 103-135); a failure is caught at line 168.
InitialRefreshStep(resp) ==
  /\ phase = "refreshing"
  /\ phase' = "running"
  /\ UNCHANGED <<AUTH_TOKEN, requestLogs, dashboardAuthenticated, nextId, now, pending, lastCall, lastAdmin,
                 cachedRefreshTokenId>>
  /\ IF resp.kind # "ok" THEN
       /\ authStatus' = updateAuthStatus(authStatus,
                          [lastRefreshAt |-> Iso(now), lastRefreshStatus |-> "error",
                           lastRefreshError |-> ErrorMessage(resp)])
       /\ UNCHANGED <<tokenStore, currentApiKey, lastRefreshTime,
                      cachedRefreshTokenValue, disk>>
     ELSE
       LET rotate == ~Falsy(resp.refresh_token) /\ ~Falsy(cachedRefreshTokenId)
           upd    == updateTokenValue(tokenStore, "refresh", cachedRefreshTokenId,
                                      resp.refresh_token)
           act    == activateToken(upd.store, "refresh", cachedRefreshTokenId)
       IN /\ currentApiKey' = resp.access_token
          /\ lastRefreshTime' = now
          /\ cachedRefreshTokenValue' =
               IF rotate THEN resp.refresh_token ELSE cachedRefreshTokenValue
          /\ IF rotate /\ upd.err # NULL THEN
               /\ UNCHANGED <<tokenStore, disk>>
               /\ authStatus' = updateAuthStatus(authStatus,
                                  [lastRefreshAt |-> Iso(now),
                                   lastRefreshStatus |-> "error",
                                   lastRefreshError |-> upd.err])
             ELSE
               /\ tokenStore' = IF rotate THEN act.store ELSE tokenStore
               /\ disk' = IF rotate THEN persistStore(act.store) ELSE disk
               /\ authStatus' = updateAuthStatus(authStatus,
                                  [lastRefreshAt |-> Iso(now),
                                   lastRefreshStatus |-> "success",
                                   lastRefreshError |-> NULL,
                                   activeAccessTokenSnippet |->
                                     maskToken(resp.access_token)])

InitialRefreshSettles(env) ==
  /\ phase = "refreshing"
  /\ \E resp \in Responses(cachedRefreshTokenValue, env.rotates) :
       FreshFor(resp, tokenStore) /\ InitialRefreshStep(resp)

\* POST /api/tokens with body {type, value, label} (dashboard.js lines 613-627).
PostTokensStep(type, value, label, env) ==
  /\ phase = "running"
  /\ UNCHANGED <<AUTH_TOKEN, requestLogs, dashboardAuthenticated, authStatus, currentApiKey, lastRefreshTime,
                 cachedRefreshTokenId, cachedRefreshTokenValue, now, pending,
                 lastCall, phase>>
  /\ IF Falsy(value) THEN
       /\ lastAdmin' = Observed("add", type, value, "400",
                                 "type and value are required", tokenStore)
       /\ UNCHANGED <<tokenStore, nextId, disk>>
     ELSE
       LET st == ensureToken(tokenStore, type, value, label, FALSE, nextId)
           n  == nextId + StoreSize(st) - StoreSize(tokenStore)
       IN /\ n <= env.maxIds + 1
          /\ tokenStore' = st
          /\ nextId' = n
          /\ disk' = persistStore(st)
          /\ lastAdmin' = Observed("add", type, value, "200", NULL, tokenStore)

PostTokens(env) ==
  \E type \in Types : \E value \in env.values[type] : \E label \in env.labels :
    PostTokensStep(type, value, label, env)

\* DELETE /api/tokens/:type/:id (dashboard.js lines 629-640).
DeleteTokenStep(type, id) ==
  LET r == removeToken(tokenStore, type, id)
  IN /\ phase = "running"
     /\ tokenStore' = r.store
     /\ disk' = IF r.err = NULL THEN persistStore(r.store) ELSE disk
     /\ lastAdmin' = Observed("remove", type, id,
                              IF r.err = NULL THEN "200" ELSE "400", r.err,
                              tokenStore)
     /\ UNCHANGED <<AUTH_TOKEN, requestLogs, dashboardAuthenticated, nextId, authStatus, currentApiKey,
                    lastRefreshTime, cachedRefreshTokenId,
                    cachedRefreshTokenValue, now, pending, lastCall, phase>>

DeleteToken == \E type \in Types : \E id \in IdInputs : DeleteTokenStep(type, id)

\* POST /api/tokens/activate with body {type, id} (dashboard.js lines 667-683).
PostActivateStep(type, id) ==
  LET r == activateToken(tokenStore, type, id)
  IN /\ phase = "running"
     /\ tokenStore' = r.store
     /\ disk' = IF r.err = NULL THEN persistStore(r.store) ELSE disk
     /\ lastAdmin' = Observed("activate", type, id,
                              IF r.err = NULL THEN "200" ELSE "400", r.err,
                              tokenStore)
     /\ UNCHANGED <<AUTH_TOKEN, requestLogs, dashboardAuthenticated, nextId, authStatus, currentApiKey,
                    lastRefreshTime, cachedRefreshTokenId,
                    cachedRefreshTokenValue, now, pending, lastCall, phase>>

PostActivate == \E type \in Types : \E id \in IdInputs : PostActivateStep(type, id)

\* The process ends between two handlers; the file stays as it is.
Stop ==
  /\ phase = "running"
  /\ phase' = "down"
  /\ FreshMemory
  /\ UNCHANGED <<AUTH_TOKEN, dashboardAuthenticated, nextId, now, disk>>

\* The process dies while persistStore writes the store that adding a token
\* produced: writeFileSync has not opened the file yet, has truncated it and
\* written a part, or has written all of it.
PersistCrash(env) ==
  /\ phase = "running"
  /\ \E type \in Types : \E value \in env.values[type] :
       LET st == ensureToken(tokenStore, type, value, NULL, FALSE, nextId)
           n  == nextId + StoreSize(st) - StoreSize(tokenStore)
       IN /\ ~Falsy(value)
          /\ n <= env.maxIds + 1
          /\ nextId' = n
          /\ disk' \in {disk, FileOf("partial", EmptyStore), persistStore(st)}
  /\ phase' = "down"
  /\ FreshMemory
  /\ UNCHANGED <<AUTH_TOKEN, dashboardAuthenticated, now>>

NextDash(env) ==
  \/ Startup(env)
  \/ InitialRefreshSettles(env)
  \/ PostTokens(env)
  \/ DeleteToken
  \/ PostActivate
  \/ Stop
  \/ PersistCrash(env)

\* The process under the operator's dashboard, from its start.
SpecDash == InitBoot(DashEnv) /\ [][NextDash(DashEnv)]_vars

---------------------------------------------------------------------------
\* The dashboard's view of the token store.

\* sanitizeToken that copies the value into the snippet.
sanitizeToken_Raw(token) ==
  [id |-> token.id, label |-> token.label, snippet |-> token.value,
   readOnly |-> token.readOnly]

sanitizeToken(token) ==
  [id |-> token.id, label |-> token.label, snippet |-> maskToken(token.value),
   readOnly |-> token.readOnly]

getTokenStoreSnapshot(store) ==
  [factoryKeys   |-> [i \in 1..Len(store.factoryKeys) |->
                        sanitizeToken(store.factoryKeys[i])],
   refreshTokens |-> [i \in 1..Len(store.refreshTokens) |->
                        sanitizeToken(store.refreshTokens[i])],
   activeFactoryKeyId   |-> store.activeFactoryKeyId,
   activeRefreshTokenId |-> store.activeRefreshTokenId]

\* getDashboardState without the request log.
getDashboardState(store, status) ==
  [tokens |-> getTokenStoreSnapshot(store), authStatus |-> status]

\* The environment of the dashboard's view: requests with the admin secret and
\* with a key of the caller's own, one long factory key, one long refresh token.
ViewEnv ==
  [authEnv |-> {"s3cr3t"},
   auths   |-> {"Bearer s3cr3t", "Bearer user-own-key"},
   values  |-> [factory |-> FactoryInputs, refresh |-> {"rt_123456"}],
   rotates |-> FALSE,
   maxIds  |-> ResolverMaxIds, maxPending |-> ResolverMaxPending]

\* The engine and the store as the dashboard shows them.
SpecView == Init(ViewEnv) /\ [][NextTimeless(ViewEnv)]_vars

\* The refresh engine over time: two clock readings one refresh interval
\* apart, requests with the admin secret, one refresh token, no factory key.
ClockMaxNow == 2
ClockMaxIds == 2
ClockMaxPending == 1

ClockEnv ==
  [authEnv |-> {"s3cr3t"},
   auths   |-> AdminAuths,
   values  |-> [factory |-> {}, refresh |-> {"rt_A"}],
   rotates |-> FALSE,
   maxNow  |-> ClockMaxNow, maxIds |-> ClockMaxIds, maxPending |-> ClockMaxPending]

SpecClock == Init(ClockEnv) /\ [][Next(ClockEnv)]_vars

\* Restarts in one environment that never changes: FACTORY_API_KEY is set and
\* the legacy file holds a refresh token; the provider rotates it.
RestartMaxIds == 3

RestartEnv ==
  [authEnv |-> {"s3cr3t"},
   values  |-> [factory |-> {"12345678"}, refresh |-> {}],
   labels  |-> {NULL},
   rotates |-> TRUE,
   maxIds  |-> RestartMaxIds,
   files   |-> {FileOf("missing", EmptyStore)},
   envFactory |-> {"fk_abcdefgh1234"},
   envRefresh |-> {NULL},
   legacy     |-> {[kind |-> "json", refresh_token |-> "rt_123456",
                    access_token |-> NULL]}]

SpecRestart == InitBoot(RestartEnv) /\ [][NextDash(RestartEnv)]_vars

\* Starts from persisted files that parse but whose active ids are off: one
\* names no record, one is null beside a record.
LoadMaxIds == 2

DanglingStore ==
  [factoryKeys |-> <<[id |-> "factory-0", label |-> "Factory Token",
                      value |-> "12345678", readOnly |-> FALSE]>>,
   refreshTokens |-> <<>>,
   activeFactoryKeyId |-> "factory-9", activeRefreshTokenId |-> "refresh-9"]

UnselectedStore ==
  [DanglingStore EXCEPT !.activeFactoryKeyId = NULL, !.activeRefreshTokenId = NULL]

LoadEnv ==
  [authEnv |-> {"s3cr3t"},
   values  |-> [factory |-> {"k1"}, refresh |-> {"rt_123456"}],
   labels  |-> {NULL},
   rotates |-> FALSE,
   maxIds  |-> LoadMaxIds,
   files   |-> {FileOf("missing", EmptyStore), FileOf("store", DanglingStore),
                FileOf("store", UnselectedStore)},
   envFactory |-> {NULL, "fk_abcdefgh1234"},
   envRefresh |-> {NULL},
   legacy     |-> {NoLegacy, [kind |-> "json", refresh_token |-> "rt_123456",
                              access_token |-> NULL]}]

SpecLoad == InitBoot(LoadEnv) /\ [][NextDash(LoadEnv)]_vars

\* The token store on a file that cannot always be written. persistStore
\* catches the error of writeFileSync and returns (state.js lines 50-52), so
\* the operation that called it ends as if the write had been made.
DiskMaxIds == 2
DiskMaxPending == 1

\* addToken whose write fails before the file is touched.
AddTokenWriteFails(env) ==
  \E type \in Types : \E value \in env.values[type] : \E label \in LabelInputs :
    LET st == ensureToken(tokenStore, type, value, label, FALSE, nextId)
        created == Len(Collection(st, type)) > Len(Collection(tokenStore, type))
    IN /\ created => nextId <= env.maxIds
       /\ tokenStore' = st
       /\ nextId' = IF created THEN nextId + 1 ELSE nextId
       /\ disk' = disk
       /\ UNCHANGED <<AUTH_TOKEN, requestLogs, dashboardAuthenticated, authStatus,
                      currentApiKey, lastRefreshTime, cachedRefreshTokenId,
                      cachedRefreshTokenValue, now, pending, lastCall, phase,
                      lastAdmin>>

\* removeToken whose write fails before the file is touched.
RemoveTokenWriteFails ==
  \E type \in Types : \E id \in IdInputs :
    /\ removeToken(tokenStore, type, id).err = NULL
    /\ tokenStore' = removeToken(tokenStore, type, id).store
    /\ disk' = disk
    /\ UNCHANGED <<AUTH_TOKEN, requestLogs, dashboardAuthenticated, nextId, authStatus,
                   currentApiKey, lastRefreshTime, cachedRefreshTokenId,
                   cachedRefreshTokenValue, now, pending, lastCall, phase,
                   lastAdmin>>

\* activateToken whose write fails before the file is touched.
ActivateTokenWriteFails ==
  \E type \in Types : \E id \in IdInputs :
    /\ activateToken(tokenStore, type, id).err = NULL
    /\ tokenStore' = activateToken(tokenStore, type, id).store
    /\ disk' = disk
    /\ UNCHANGED <<AUTH_TOKEN, requestLogs, dashboardAuthenticated, nextId, authStatus,
                   currentApiKey, lastRefreshTime, cachedRefreshTokenId,
                   cachedRefreshTokenValue, now, pending, lastCall, phase,
                   lastAdmin>>

DiskEnv ==
  [authEnv |-> {"s3cr3t"},
   auths   |-> AdminAuths,
   values  |-> [factory |-> {"k1"}, refresh |-> {"rt_A"}],
   rotates |-> TRUE,
   maxIds  |-> DiskMaxIds, maxPending |-> DiskMaxPending]

NextDisk(env) ==
  \/ NextTimeless(env)
  \/ AddTokenWriteFails(env)
  \/ RemoveTokenWriteFails
  \/ ActivateTokenWriteFails

SpecDisk == Init(DiskEnv) /\ [][NextDisk(DiskEnv)]_vars

\* The request log (state.js lines 168-189).

\* src/unnamed/part_002:11
MAX_LOGS == 100

\* The number of requests the log is offered.
LogMaxRequests == 103

\* Array.prototype.slice(start) of a sequence: a negative start counts from
\* the end, and -0 is 0.
SliceFrom(seq, start) ==
  LET k == IF start < 0
           THEN (IF Len(seq) + start > 0 THEN Len(seq) + start ELSE 0)
           ELSE (IF start < Len(seq) THEN start ELSE Len(seq))
  IN SubSeq(seq, k + 1, Len(seq))

\* Array.prototype.reverse
Reverse(seq) == [i \in 1..Len(seq) |-> seq[Len(seq) + 1 - i]]

\* recordRequestLog(entry) (lines 168-184): the log after the call.
recordRequestLog(logs, entry) ==
  LET normalized ==
        [timestamp    |-> IF Falsy(entry.timestamp) THEN Iso(now) ELSE entry.timestamp,
         path         |-> entry.path,
         tokenSource  |-> IF Falsy(entry.tokenSource) THEN "none" ELSE entry.tokenSource,
         tokenSnippet |-> IF Falsy(entry.tokenSnippet) THEN "N/A" ELSE entry.tokenSnippet]
      pushed == Append(logs, normalized)
  IN IF Len(pushed) > MAX_LOGS THEN SliceFrom(pushed, -MAX_LOGS) ELSE pushed

\* getRecentLogs(limit) (lines 186-189)
getRecentLogs(logs, limit) == Reverse(SliceFrom(logs, -limit))

\* The requests the proxy has logged so far: the n-th request has path n.
Logged == IF requestLogs = <<>> THEN 0 ELSE requestLogs[Len(requestLogs)].path

\* The proxy records its next request.
RecordRequestLog ==
  /\ Logged < LogMaxRequests
  /\ \E source \in {NULL, "factory"} :
       requestLogs' = recordRequestLog(requestLogs,
                        [timestamp |-> NULL, path |-> Logged + 1,
                         tokenSource |-> IF Logged + 1 = 1 THEN source ELSE NULL,
                         tokenSnippet |-> NULL])
  /\ UNCHANGED <<AUTH_TOKEN, dashboardAuthenticated, tokenStore, nextId,
                 authStatus, currentApiKey, lastRefreshTime,
                 cachedRefreshTokenId, cachedRefreshTokenValue, now, pending,
                 lastCall, disk, phase, lastAdmin>>

LogEnv ==
  [authEnv |-> {NULL},
   limits  |-> {0, 1, 20, MAX_LOGS, MAX_LOGS + 1}]

SpecLog == Init(LogEnv) /\ [][RecordRequestLog]_vars

\* The operator's routes beside the refresh engine: two refresh tokens, a
\* provider that rotates them, requests with the admin secret.
UndoMaxIds == 2
UndoMaxPending == 1

UndoEnv ==
  [authEnv |-> {"s3cr3t"},
   auths   |-> AdminAuths,
   values  |-> [factory |-> {}, refresh |-> {"rt_A", "rt_B"}],
   labels  |-> {NULL},
   rotates |-> TRUE,
   maxIds  |-> UndoMaxIds, maxPending |-> UndoMaxPending]

NextUndo(env) ==
  \/ Resolve(env)
  \/ ExchangeCompletes(env)
  \/ PostTokens(env)
  \/ DeleteToken
  \/ PostActivate

SpecUndo == Init(UndoEnv) /\ [][NextUndo(UndoEnv)]_vars

\* The refresh engine with a provider that rotates the refresh token.
RotateMaxNow == 2
RotateMaxIds == 2
RotateMaxPending == 1

RotateEnv ==
  [authEnv |-> {"s3cr3t"},
   auths   |-> AdminAuths,
   values  |-> [factory |-> {}, refresh |-> {"rt_A"}],
   rotates |-> TRUE,
   maxNow  |-> RotateMaxNow, maxIds |-> RotateMaxIds,
   maxPending |-> RotateMaxPending]

SpecRotate == Init(RotateEnv) /\ [][Next(RotateEnv)]_vars

\* The resolver's three sources over time: requests with the admin secret,
\* with a key of the caller's own and with a Bearer header without a token.
UseMaxNow == 2
UseMaxIds == 1
UseMaxPending == 1

UseEnv ==
  [authEnv |-> {"s3cr3t"},
   auths   |-> {"Bearer s3cr3t", "Bearer user-own-key", "Bearer "},
   values  |-> [factory |-> FactoryInputs, refresh |-> {"rt_A"}],
   rotates |-> FALSE,
   maxNow  |-> UseMaxNow, maxIds |-> UseMaxIds, maxPending |-> UseMaxPending]

SpecUse == Init(UseEnv) /\ [][Next(UseEnv)]_vars

\* The resolver while exchanges hang: up to two in flight, requests with the
\* admin secret and with a key of the caller's own.
HangMaxIds == 2
HangMaxPending == 2

HangEnv ==
  [authEnv |-> {"s3cr3t"},
   auths   |-> {"Bearer s3cr3t", "Bearer user-own-key"},
   values  |-> [factory |-> FactoryInputs, refresh |-> {"rt_A"}],
   rotates |-> FALSE,
   maxIds  |-> HangMaxIds, maxPending |-> HangMaxPending]

SpecHang == Init(HangEnv) /\ [][NextTimeless(HangEnv)]_vars

\* The operator's edits of a collection of up to OrderMaxIds records.
OrderMaxIds == 3

OrderEnv ==
  [authEnv |-> {NULL},
   values  |-> [factory |-> {"k1", "k2", "k3"}, refresh |-> {"rt_A"}],
   labels  |-> {NULL},
   maxIds  |-> OrderMaxIds]

SpecOrder ==
  Init(OrderEnv) /\ [][PostTokens(OrderEnv) \/ DeleteToken \/ PostActivate]_vars

---------------------------------------------------------------------------
\* The dashboard's login and the gate in front of its API routes.

\* The number of records the operator of the gated routes creates.
GateMaxIds == 2

\* getDashboardAuthToken (auth.js lines 176-178)
getDashboardAuthToken == IF Falsy(AUTH_TOKEN) THEN "" ELSE AUTH_TOKEN

\* getTokenValue(type, id) (state.js lines 270-278)
getTokenValue(store, type, id) ==
  IF \E r \in RecordsOf(store, type) : r.id = id
  THEN CHOOSE r \in RecordsOf(store, type) : r.id = id
  ELSE NoToken

\* A request carries the cookie of one session or none; without one
\* req.session holds no flag.
SessionInputs == SessionIds \cup {NULL}

\* ensureDashboardAuth that lets every request through.
ensureDashboardAuth_Open(session) == TRUE

\* ensureDashboardAuth (dashboard.js lines 564-569)
ensureDashboardAuth(session) ==
  session # NULL /\ dashboardAuthenticated[session]

\* res.status(401).json({ error: 'Unauthorized' })
Unauthorized(op, type, arg) ==
  /\ phase = "running"
  /\ lastAdmin' = Observed(op, type, arg, "401", "Unauthorized", tokenStore)
  /\ UNCHANGED <<AUTH_TOKEN, requestLogs, dashboardAuthenticated, tokenStore, nextId,
                 authStatus, currentApiKey, lastRefreshTime,
                 cachedRefreshTokenId, cachedRefreshTokenValue, now, pending,
                 lastCall, disk, phase>>

\* POST /login with body {token} (dashboard.js lines 583-596).
LoginStep(session, token) ==
  /\ phase = "running"
  /\ UNCHANGED <<AUTH_TOKEN, requestLogs, tokenStore, nextId, authStatus, currentApiKey,
                 lastRefreshTime, cachedRefreshTokenId, cachedRefreshTokenValue,
                 now, pending, lastCall, disk, phase>>
  /\ IF Falsy(getDashboardAuthToken) THEN
       /\ dashboardAuthenticated' = dashboardAuthenticated
       /\ lastAdmin' = Observed("login", NULL, session, "200",
                                "AUTH_TOKEN is not configured", tokenStore)
     ELSE IF ~Falsy(token) /\ Trim(token) = getDashboardAuthToken THEN
       /\ dashboardAuthenticated' =
            IF session # NULL
            THEN [dashboardAuthenticated EXCEPT ![session] = TRUE]
            ELSE dashboardAuthenticated
       /\ lastAdmin' = Observed("login", NULL, session, "302", NULL, tokenStore)
     ELSE
       /\ dashboardAuthenticated' = dashboardAuthenticated
       /\ lastAdmin' = Observed("login", NULL, session, "200",
                                "AUTH_TOKEN is incorrect", tokenStore)

\* POST /logout (dashboard.js lines 598-607).
LogoutStep(session) ==
  /\ phase = "running"
  /\ UNCHANGED <<AUTH_TOKEN, requestLogs, tokenStore, nextId, authStatus, currentApiKey,
                 lastRefreshTime, cachedRefreshTokenId, cachedRefreshTokenValue,
                 now, pending, lastCall, disk, phase>>
  /\ dashboardAuthenticated' =
       IF session # NULL
       THEN [dashboardAuthenticated EXCEPT ![session] = FALSE]
       ELSE dashboardAuthenticated
  /\ lastAdmin' = Observed("logout", NULL, session, "302", NULL, tokenStore)

\* GET /api/state (dashboard.js lines 609-611).
ApiState(session) ==
  IF ensureDashboardAuth(session) THEN
    /\ phase = "running"
    /\ lastAdmin' = Observed("state", NULL, NULL, "200", NULL, tokenStore)
    /\ UNCHANGED <<AUTH_TOKEN, requestLogs, dashboardAuthenticated, tokenStore, nextId,
                   authStatus, currentApiKey, lastRefreshTime,
                   cachedRefreshTokenId, cachedRefreshTokenValue, now, pending,
                   lastCall, disk, phase>>
  ELSE Unauthorized("state", NULL, NULL)

\* POST /api/tokens behind ensureDashboardAuth (dashboard.js line 613).
ApiTokensPost(session, type, value, label, env) ==
  IF ensureDashboardAuth(session)
  THEN PostTokensStep(type, value, label, env)
  ELSE Unauthorized("add", type, value)

\* DELETE /api/tokens/:type/:id behind ensureDashboardAuth (dashboard.js line 629).
ApiTokensDelete(session, type, id) ==
  IF ensureDashboardAuth(session)
  THEN DeleteTokenStep(type, id)
  ELSE Unauthorized("remove", type, id)

\* POST /api/tokens/activate behind ensureDashboardAuth (dashboard.js line 669).
ApiTokensActivate(session, type, id) ==
  IF ensureDashboardAuth(session)
  THEN PostActivateStep(type, id)
  ELSE Unauthorized("activate", type, id)

\* POST /api/tokens/usage (dashboard.js lines 642-667). The handler reads the
\* record before it asks the provider for the usage and writes nothing after
\* the answer; `answer` is what fetchFactoryUsage ends with.
ApiTokensUsage(session, type, id, answer) ==
  IF ensureDashboardAuth(session) THEN
    /\ phase = "running"
    /\ lastAdmin' =
         IF type # "factory"
         THEN Observed("usage", type, id, "400", "only factory keys", tokenStore)
         ELSE IF getTokenValue(tokenStore, type, id) = NoToken
         THEN Observed("usage", type, id, "404", "Token not found", tokenStore)
         ELSE Observed("usage", type, id, answer, NULL, tokenStore)
    /\ UNCHANGED <<AUTH_TOKEN, requestLogs, dashboardAuthenticated, tokenStore, nextId,
                   authStatus, currentApiKey, lastRefreshTime,
                   cachedRefreshTokenId, cachedRefreshTokenValue, now, pending,
                   lastCall, disk, phase>>
  ELSE Unauthorized("usage", type, id)

\* Startups with and without AUTH_TOKEN, tokens typed into the login form.
GateEnv ==
  [authEnv |-> {NULL, "s3cr3t"},
   tokens  |-> {NULL, "s3cr3t", " s3cr3t ", "guess"},
   values  |-> [factory |-> {"k1"}, refresh |-> {"rt_A"}],
   labels  |-> {NULL},
   usage   |-> {"200", "502"},
   maxIds  |-> GateMaxIds]

NextGate(env) ==
  \E session \in SessionInputs :
    \/ \E token \in env.tokens : LoginStep(session, token)
    \/ LogoutStep(session)
    \/ ApiState(session)
    \/ \E type \in Types : \E value \in env.values[type] : \E label \in env.labels :
         ApiTokensPost(session, type, value, label, env)
    \/ \E type \in Types : \E id \in IdInputs : ApiTokensDelete(session, type, id)
    \/ \E type \in Types : \E id \in IdInputs : ApiTokensActivate(session, type, id)
    \/ \E type \in Types : \E id \in IdInputs : \E answer \in env.usage :
         ApiTokensUsage(session, type, id, answer)

SpecGate == Init(GateEnv) /\ [][NextGate(GateEnv)]_vars

\* The longest secret the operator tries, and the number of records.
MaskMaxLen == 11
MaskMaxIds == 2

\* Secrets of every length up to MaskMaxLen: the beginnings of "abcdefgh", and
\* longer ones that differ in their fourth and in their fourth-last character.
RECURSIVE Filler(_)
Filler(n) == IF n = 0 THEN "" ELSE Filler(n - 1) \o "-"

MaskInputs ==
  {SubSeq("abcdefgh", 1, n) : n \in 0..8}
  \cup {h \o Filler(n) \o t :
          h \in {"abcd", "abcD"}, n \in 0..(MaskMaxLen - 8), t \in {"wxyz", "Wxyz"}}

MaskEnv ==
  [authEnv |-> {NULL},
   values  |-> [factory |-> MaskInputs, refresh |-> {"rt_abcdefgh"}],
   maxIds  |-> MaskMaxIds]

\* The token store while the operator adds secrets of every length.
SpecMask == Init(MaskEnv) /\ [][AddToken(MaskEnv)]_vars

---------------------------------------------------------------------------
\* Vocabulary of the properties.

\* The presented authorizations whose token is the admin secret "s3cr3t".
SecretForms == {"s3cr3t", "Bearer s3cr3t", "Bearer  s3cr3t "}

\* The request presents the configured admin secret.
PresentsSecret(a) == AUTH_TOKEN = "s3cr3t" /\ a \in SecretForms

\* The records of a kind, and whether its active id names one of them.
Records(type) ==
  LET coll == Collection(tokenStore, type) IN {coll[i] : i \in 1..Len(coll)}

ActiveRecords(type) == {r \in Records(type) : r.id = ActiveId(tokenStore, type)}

\* A suspended call ended in this step.
Completed(p) == pending # pending' /\ pending' = pending (-) SetToBag({p})

---------------------------------------------------------------------------
\* C1. Refresh exchanges are single-flight: at no moment are two exchanges in
\* flight for the same active refresh-token identity; a call that arrives
\* while one is in flight waits for it instead of starting its own.
C1_SingleFlight ==
  \A p \in BagToSet(pending) :
    /\ pending[p] = 1
    /\ \A q \in BagToSet(pending) :
         q.startId = p.startId /\ q.refresh_token = p.refresh_token => q = p

\* C2. When the active refresh-token record is no longer the one the cached
\* access token belongs to, the next resolve with the admin secret (no factory
\* key active) drops the cached token and starts an exchange that sends the
\* new active record's secret; the call does not return from the cache, and
\* when it returns it carries the token issued in its own exchange.
C2_ChangeInvalidates ==
  [][/\ (currentApiKey # NULL /\ ActiveRecords("factory") = {})
        => \A r \in ActiveRecords("refresh") :
             (cachedRefreshTokenId # r.id \/ cachedRefreshTokenValue # r.value)
             => \A a \in SecretForms :
                  (PresentsSecret(a) /\ ResolveStep(a, StoreEnv))
                  => /\ currentApiKey' = NULL
                     /\ lastCall' = lastCall
                     /\ \E p \in BagToSet(pending') :
                          /\ pending' = pending (+) SetToBag({p})
                          /\ p.refresh_token = r.value
                          /\ p.startId = r.id
     /\ \A p \in BagToSet(pending) :
          (Completed(p) /\ lastCall'.outcome = "return")
          => /\ lastCall'.source = "refresh"
             /\ lastCall'.header = "Bearer " \o AccessTokenFor(p.refresh_token)
    ]_vars

\* The operator switched to another refresh token after a token of the first
\* had been handed out, and the next resolve has started its exchange.
C2_Witness ==
  /\ lastCall.outcome = "return" /\ lastCall.header = "Bearer at:rt_A"
  /\ currentApiKey = NULL
  /\ \E r \in ActiveRecords("refresh") : \E p \in BagToSet(pending) :
       /\ r.value = "rt_B" /\ p.refresh_token = "rt_B" /\ p.startId = r.id
       /\ cachedRefreshTokenId = r.id

\* C3. A resolve that returns source = refresh never returns an access token
\* obtained from an exchange started for a refresh-token record other than the
\* currently active one.
C3_NoForeignToken ==
  [][\A p \in BagToSet(pending) :
       (Completed(p) /\ lastCall'.outcome = "return" /\ lastCall'.source = "refresh")
       => p.startId = tokenStore'.activeRefreshTokenId
    ]_vars

\* C4. A failed exchange, when an access token cached before the call started
\* exists, leaves resolve returning that token with source = refresh and
\* records lastRefreshOutcome = error, without raising.
C4_SoftFailure ==
  [][\A p \in BagToSet(pending) :
       ( /\ Completed(p)
         /\ authStatus'.lastRefreshStatus = "error"
         /\ currentApiKey # NULL
         /\ cachedRefreshTokenId = p.startId
         /\ lastRefreshTime # 0 /\ lastRefreshTime < p.timestamp )
       => /\ lastCall'.outcome = "return"
          /\ lastCall'.source = "refresh"
          /\ lastCall'.header = "Bearer " \o currentApiKey
    ]_vars

\* C5. resolve with the admin secret while a factory key is active returns
\* source = factory with a header carrying that key's secret and starts no
\* exchange, whatever refresh tokens are configured and whatever the cache holds.
C5_FactoryPreferred ==
  [][\A f \in ActiveRecords("factory") : \A a \in SecretForms :
       (PresentsSecret(a) /\ ResolveStep(a, ResolverEnv))
       => /\ lastCall'.outcome = "return"
          /\ lastCall'.auth = a
          /\ lastCall'.source = "factory"
          /\ lastCall'.header = "Bearer " \o f.value
          /\ pending' = pending
    ]_vars

\* The factory key was served while a refresh token was active and no access
\* token was cached.
C5_Witness ==
  /\ lastCall.source = "factory"
  /\ lastCall.header = "Bearer fk_abcdefgh1234"
  /\ ActiveRecords("refresh") # {}
  /\ currentApiKey = NULL

C9_NoServerCredential ==
  [][(ActiveRecords("factory") = {} /\ ActiveRecords("refresh") = {})
       => \A a \in SecretForms :
            (PresentsSecret(a) /\ ResolveStep(a, ResolverEnv))
            => /\ lastCall' = Thrown(a, "503",
                                     "Server-managed tokens are not configured")
               /\ pending' = pending
    ]_vars

\* The bare admin secret was presented to an empty store.
C9_Witness ==
  /\ tokenStore.factoryKeys = <<>> /\ tokenStore.refreshTokens = <<>>
  /\ lastCall.auth = "s3cr3t" /\ lastCall.status = "503"

\* C10. After every add, remove and activate the active id of each kind is
\* null or the id of a record of that kind.
C10_ActiveIdValid ==
  \A type \in Types :
    ActiveId(tokenStore, type) = NULL \/ ActiveRecords(type) # {}

\* Two refresh tokens were added and the first was removed: the second is the
\* only record and the active one.
C10_Witness ==
  /\ nextId = 3
  /\ Len(tokenStore.refreshTokens) = 1
  /\ tokenStore.refreshTokens[1].id = "refresh-2"
  /\ tokenStore.activeRefreshTokenId = "refresh-2"

\* C18. When a successful exchange carries a rotated refresh_token, the new
\* secret is written into the record that was the active refresh token when the
\* exchange started, and that record is re-activated and persisted, whatever
\* the operator selected meanwhile; no other record is rewritten.
C18_RotationTarget ==
  [][\A p \in BagToSet(pending) :
       Completed(p) =>
         \A resp \in Responses(p.refresh_token, TRUE) :
           (resp.kind = "ok" /\ resp.refresh_token # NULL /\ CompletionStep(p, resp))
           => /\ \A r \in RecordsOf(tokenStore', "refresh") :
                   r.id # p.startId => r \in RecordsOf(tokenStore, "refresh")
              /\ (\E r \in RecordsOf(tokenStore, "refresh") : r.id = p.startId)
                 => /\ \E r \in RecordsOf(tokenStore', "refresh") :
                         r.id = p.startId /\ r.value = resp.refresh_token
                    /\ tokenStore'.activeRefreshTokenId = p.startId
                    /\ disk' = persistStore(tokenStore')
    ]_vars

---------------------------------------------------------------------------
\* Properties of the token store under the dashboard and at startup.

\* A record of the kind holds the secret.
Holds(store, type, secret) ==
  \E r \in RecordsOf(store, type) : r.value = secret

\* A value that is a secret once trimmed.
NonBlank(value) == ~Falsy(value) /\ Trim(value) # ""

\* The secrets startup offers to a kind's collection, with their labels.
Offered(type, envFactory, envRefresh, legacy) ==
  LET all == IF type = "factory"
             THEN {[value |-> envFactory, label |-> "FACTORY_API_KEY (env)"],
                   [value |-> legacy.access_token, label |-> "Factory Access Token"]}
             ELSE {[value |-> envRefresh, label |-> "DROID_REFRESH_KEY (env)"],
                   [value |-> legacy.refresh_token, label |-> "Factory Refresh Token"]}
  IN {[value |-> Trim(o.value), label |-> o.label] : o \in {x \in all : NonBlank(x.value)}}

\* C11. Adding a secret that, trimmed, is already held by a record of the kind
\* leaves both collections as they are. Startup, offered such a secret, keeps
\* the record's place, id and value, marks it read-only and gives it the
\* source's label; a collection grows only by the offered secrets it did not
\* hold, and every other record stays as it is.
C11_DuplicateInsertMerges ==
  [][/\ \A type \in Types : \A value \in DashEnv.values[type] :
          (NonBlank(value) /\ Holds(tokenStore, type, Trim(value)))
          => \A label \in DashEnv.labels :
               PostTokensStep(type, value, label, DashEnv)
               => /\ tokenStore'.factoryKeys = tokenStore.factoryKeys
                  /\ tokenStore'.refreshTokens = tokenStore.refreshTokens
     /\ (phase \in {"boot", "down"} /\ phase' # "failed")
        => \A envFactory \in DashEnv.envFactory : \A envRefresh \in DashEnv.envRefresh :
             \A legacy \in DashEnv.legacy :
               StartupStep(envFactory, envRefresh, legacy, DashEnv)
               => \A type \in Types :
                    LET old == Collection(loadStore(disk), type)
                        new == Collection(tokenStore', type)
                        off == Offered(type, envFactory, envRefresh, legacy)
                        held == {o \in off : Holds(loadStore(disk), type, o.value)}
                    IN /\ Len(new) = Len(old) + Cardinality(off \ held)
                       /\ \A i \in 1..Len(old) :
                            IF \E o \in held : o.value = old[i].value
                            THEN \E o \in held :
                                   /\ o.value = old[i].value
                                   /\ new[i] = [old[i] EXCEPT !.readOnly = TRUE,
                                                              !.label = o.label]
                            ELSE new[i] = old[i]
    ]_vars

\* Startup was offered the legacy file's refresh token, the store already held
\* it, and the record now carries the legacy file's label and is read-only.
C11_Witness ==
  /\ lastAdmin.op = "startup" /\ phase # "failed"
  /\ lastAdmin.arg[2] = "rt_123456"
  /\ lastAdmin.sizeBefore = StoreSize(tokenStore)
  /\ \E r \in RecordsOf(tokenStore, "refresh") :
       r.readOnly /\ r.label = "Factory Refresh Token"

C13_BlankAddFails ==
  [][\A type \in Types : \A value \in DashEnv.values[type] :
       (Falsy(value) \/ Trim(value) = "")
       => \A label \in DashEnv.labels :
            PostTokensStep(type, value, label, DashEnv)
            => /\ lastAdmin'.status = "400"
               /\ tokenStore' = tokenStore
    ]_vars

\* C14. A request to remove an id that no record of the kind has is answered
\* "Token not found", one that names a read-only record "Cannot remove
\* read-only token"; either leaves the store and the file as they were. No
\* request of the operator takes a read-only record out of its collection.
C14_RemoveRefusals ==
  [][(phase = "running" /\ phase' = "running")
     => /\ \A type \in Types : \A id \in IdInputs :
             DeleteTokenStep(type, id)
             => LET named == {r \in RecordsOf(tokenStore, type) : r.id = id}
                IN /\ named = {}
                      => /\ lastAdmin'.error = "Token not found"
                         /\ tokenStore' = tokenStore /\ disk' = disk
                   /\ (\E r \in named : r.readOnly)
                      => /\ lastAdmin'.error = "Cannot remove read-only token"
                         /\ tokenStore' = tokenStore /\ disk' = disk
        /\ \A type \in Types : \A r \in RecordsOf(tokenStore, type) :
             r.readOnly => r \in RecordsOf(tokenStore', type)
    ]_vars

\* The removal of a read-only record was refused, and the record is there.
C14_Witness ==
  /\ lastAdmin.op = "remove"
  /\ lastAdmin.error = "Cannot remove read-only token"
  /\ \E r \in RecordsOf(tokenStore, lastAdmin.type) :
       r.id = lastAdmin.arg /\ r.readOnly
  /\ disk = persistStore(tokenStore)

\* The other kind.
Other(type) == IF type = "factory" THEN "refresh" ELSE "factory"

\* C15. A request to activate an id that no record of the kind has is answered
\* "Token not found" and changes nothing. Any other request makes the id the
\* kind's active id and leaves the other kind's active id and all records as
\* they were; it changes nothing when the id was active already, and repeating
\* it changes nothing.
C15_Activate ==
  [][\A type \in Types : \A id \in IdInputs :
       PostActivateStep(type, id)
       => IF \E r \in RecordsOf(tokenStore, type) : r.id = id
          THEN /\ lastAdmin'.error = NULL
               /\ ActiveId(tokenStore', type) = id
               /\ ActiveId(tokenStore', Other(type)) = ActiveId(tokenStore, Other(type))
               /\ tokenStore'.factoryKeys = tokenStore.factoryKeys
               /\ tokenStore'.refreshTokens = tokenStore.refreshTokens
               /\ ActiveId(tokenStore, type) = id => tokenStore' = tokenStore
               /\ activateToken(tokenStore', type, id).store = tokenStore'
          ELSE /\ lastAdmin'.error = "Token not found"
               /\ tokenStore' = tokenStore
               /\ disk' = disk
    ]_vars

\* The operator moved the active id from one record of a kind to another.
C15_Witness ==
  /\ lastAdmin.op = "activate" /\ lastAdmin.status = "200"
  /\ ~Falsy(lastAdmin.activeBefore)
  /\ lastAdmin.activeBefore # lastAdmin.arg
  /\ ActiveId(tokenStore, lastAdmin.type) = lastAdmin.arg

\* What the masking rule makes of a secret: the secret itself up to 8
\* characters, else 11 characters: its first four, three dots, its last four.
MaskedAs(snippet, secret) ==
  IF Len(secret) <= 8 THEN snippet = secret
  ELSE /\ Len(snippet) = 11
       /\ \A k \in 1..4 : CharAt(snippet, k) = CharAt(secret, k)
       /\ \A k \in 5..7 : CharAt(snippet, k) = "."
       /\ \A k \in 1..4 : CharAt(snippet, 7 + k) = CharAt(secret, Len(secret) - 4 + k)

\* C16. The snapshot shows every record's secret whole when it has 8
\* characters or fewer, and as its first 4 characters, "...", and its last 4
\* characters when it has more.
C16_Masking ==
  LET snapshot == getTokenStoreSnapshot(tokenStore)
  IN \A type \in Types :
       \A i \in 1..Len(Collection(tokenStore, type)) :
         MaskedAs(Collection(snapshot, type)[i].snippet,
                  Collection(tokenStore, type)[i].value)

\* The store holds a secret of 8 characters and one of 9.
C16_Witness ==
  /\ \E r \in RecordsOf(tokenStore, "factory") : Len(r.value) = 8
  /\ \E r \in RecordsOf(tokenStore, "factory") : Len(r.value) = 9

\* The secrets in play under ViewEnv: the stored ones, the access tokens issued
\* for the refresh tokens, and the tokens callers present.
ViewSecrets ==
  {Trim(v) : v \in ViewEnv.values["factory"] \cup ViewEnv.values["refresh"]}
  \cup {AccessTokenFor(Trim(v)) : v \in ViewEnv.values["refresh"]}
  \cup {ParsedHeaders[a].token : a \in ViewEnv.auths}

\* The entries of the snapshot.
ViewEntries(view) ==
  UNION {{Collection(view.tokens, type)[i] :
            i \in 1..Len(Collection(view.tokens, type))} : type \in Types}

\* The strings of the administrative view, apart from the masked snippets.
ViewPlainStrings(view) ==
  {e.id : e \in ViewEntries(view)} \cup {e.label : e \in ViewEntries(view)}
  \cup {view.tokens.activeFactoryKeyId, view.tokens.activeRefreshTokenId,
        view.authStatus.lastSource, view.authStatus.lastUsedAt,
        view.authStatus.lastRefreshAt, view.authStatus.lastRefreshStatus,
        view.authStatus.lastRefreshError}

\* The snippets of the administrative view.
ViewSnippets(view) ==
  {e.snippet : e \in ViewEntries(view)}
  \cup {view.authStatus.activeAccessTokenSnippet,
        view.authStatus.lastClientTokenSnippet}

\* C17. The administrative view (token snapshot and AuthStatus) shows each
\* record as id, label, snippet and readOnly only; none of its strings is a
\* secret of more than 8 characters; and each snippet is absent, "N/A", or the
\* masked form of a stored secret, an access token or a presented token.
C17_ViewMasked ==
  LET view == getDashboardState(tokenStore, authStatus)
  IN /\ \A e \in ViewEntries(view) :
          DOMAIN e = {"id", "label", "snippet", "readOnly"}
     /\ \A x \in ViewPlainStrings(view) \cup ViewSnippets(view) :
          \A s \in ViewSecrets : Len(s) > 8 => x # s
     /\ \A m \in ViewSnippets(view) :
          m \in {NULL, "N/A"} \/ \E s \in ViewSecrets : MaskedAs(m, s)

\* The view shows a long factory key, the access token of a finished exchange
\* and a caller's own token, each masked.
C17_Witness ==
  /\ \E e \in ViewEntries(getDashboardState(tokenStore, authStatus)) :
       e.snippet = "fk_a...1234"
  /\ authStatus.activeAccessTokenSnippet = "at:r...3456"
  /\ authStatus.lastClientTokenSnippet = "user...-key"

\* C19. Whatever happens to the process while it persists, the file afterwards
\* holds what it held before or a complete store, never a part of one.
C19_AtomicPersist ==
  [][disk' = disk \/ disk'.kind = "store"]_vars

\* C20. Startup always completes: whatever the persisted file, the environment
\* and the legacy file hold, and whatever the provider answers to the initial
\* exchange, initializeAuth does not fail.
C20_StartupCompletes == phase # "failed"

\* C28. Adding a secret makes the record that holds it the kind's active
\* record exactly when the kind had no active id; when it had one, the active
\* id and the active record's secret stay as they were. The other kind's
\* collection and active id stay as they were in both cases.
C28_AddActivation ==
  [][\A type \in Types : \A value \in DashEnv.values[type] :
       NonBlank(value)
       => \A label \in DashEnv.labels :
            PostTokensStep(type, value, label, DashEnv)
            => /\ IF Falsy(ActiveId(tokenStore, type))
                  THEN \E r \in RecordsOf(tokenStore', type) :
                         /\ r.value = Trim(value)
                         /\ ActiveId(tokenStore', type) = r.id
                  ELSE /\ ActiveId(tokenStore', type) = ActiveId(tokenStore, type)
                       /\ getActiveToken(tokenStore', type).value
                            = getActiveToken(tokenStore, type).value
               /\ Collection(tokenStore', Other(type)) = Collection(tokenStore, Other(type))
               /\ ActiveId(tokenStore', Other(type)) = ActiveId(tokenStore, Other(type))
    ]_vars

\* A secret was added to a kind that had an active record: there is one record
\* more, and the active id is the one from before.
C28_Witness ==
  /\ lastAdmin.op = "add" /\ lastAdmin.status = "200"
  /\ NonBlank(lastAdmin.arg)
  /\ ~Falsy(lastAdmin.activeBefore)
  /\ StoreSize(tokenStore) = lastAdmin.sizeBefore + 1
  /\ ActiveId(tokenStore, lastAdmin.type) = lastAdmin.activeBefore

\* C29. A removal takes one record out of its collection and keeps the others
\* in their order. If the record was the active one, the kind's active id
\* becomes the id of the first record left, or null when none is left; if not,
\* the active id stays. The other kind stays as it was.
C29_RemoveReassigns ==
  [][\A type \in Types :
       LET old == Collection(tokenStore, type)
           new == Collection(tokenStore', type)
       IN Len(new) < Len(old)
          => /\ \E i \in 1..Len(old) :
                  /\ Len(new) = Len(old) - 1
                  /\ \A j \in 1..Len(new) : new[j] = IF j < i THEN old[j] ELSE old[j + 1]
                  /\ ActiveId(tokenStore', type) =
                       IF ActiveId(tokenStore, type) # old[i].id
                       THEN ActiveId(tokenStore, type)
                       ELSE IF Len(new) = 0 THEN NULL ELSE new[1].id
             /\ Collection(tokenStore', Other(type)) = Collection(tokenStore, Other(type))
             /\ ActiveId(tokenStore', Other(type)) = ActiveId(tokenStore, Other(type))
    ]_vars

\* The active record was removed and two records are left: the first of them
\* is the active one.
C29_Witness ==
  /\ lastAdmin.op = "remove" /\ lastAdmin.status = "200"
  /\ lastAdmin.activeBefore = lastAdmin.arg
  /\ Len(Collection(tokenStore, lastAdmin.type)) = 2
  /\ ActiveId(tokenStore, lastAdmin.type) = Collection(tokenStore, lastAdmin.type)[1].id

---------------------------------------------------------------------------
\* Properties of the refresh engine's exchanges.

\* The access token in the cache belongs to the active refresh token and is
\* younger than the refresh interval.
CachedValid ==
  /\ ActiveRecords("factory") = {}
  /\ \E r \in ActiveRecords("refresh") :
       cachedRefreshTokenId = r.id /\ cachedRefreshTokenValue = r.value
  /\ ~Falsy(currentApiKey)
  /\ ~shouldRefresh(lastRefreshTime, now)

\* A request that has no use for an exchange in flight: it presents a key of
\* its own, or it presents the admin secret while a factory key is active or
\* while the cached access token is valid.
Unrelated(a) ==
  IF PresentsSecret(a) THEN ActiveRecords("factory") # {} \/ CachedValid
  ELSE ~Falsy(a)

\* C24. While exchanges hang, a request that resolves to a factory key, to the
\* caller's own credential or to a valid cached access token can be served,
\* and is served in one step, with a credential, leaving the exchanges as
\* they are.
C24_HungExchangeBlocksOnlyWaiters ==
  pending # EmptyBag
  => \A a \in HangEnv.auths :
       Unrelated(a)
       => /\ ENABLED ResolveStep(a, HangEnv)
          /\ ~ENABLED (/\ ResolveStep(a, HangEnv)
                       /\ ~(/\ lastCall'.outcome = "return"
                            /\ lastCall'.auth = a
                            /\ pending' = pending))

\* The factory key was served while an exchange hung.
C24_Witness ==
  /\ pending # EmptyBag
  /\ lastCall.outcome = "return"
  /\ lastCall.source = "factory"

\* C25. A request with the admin secret, served from the active refresh token
\* (no factory key is active), starts an exchange exactly when no access token
\* is cached, or the cached one is at least 6 hours old, or the active refresh
\* token's id or secret is not the cached one; otherwise it returns the cached
\* access token.
C25_ExchangeTrigger ==
  [][(ActiveRecords("factory") = {} /\ ActiveRecords("refresh") # {})
     => \A a \in ClockEnv.auths :
          (PresentsSecret(a) /\ ResolveStep(a, ClockEnv))
          => LET r == CHOOSE x \in ActiveRecords("refresh") : TRUE
                 absent  == Falsy(currentApiKey)
                 stale   == lastRefreshTime # 0
                            /\ (now - lastRefreshTime) * TimeUnitHours >= 6
                 changed == cachedRefreshTokenId # r.id
                            \/ cachedRefreshTokenValue # r.value
             IN IF absent \/ stale \/ changed
                THEN /\ BagCardinality(pending') = BagCardinality(pending) + 1
                     /\ \E p \in BagToSet(pending') : p.refresh_token = r.value
                ELSE /\ pending' = pending
                     /\ lastCall'.outcome = "return"
                     /\ lastCall'.source = "refresh"
                     /\ lastCall'.header = "Bearer " \o currentApiKey
    ]_vars

\* The cached access token was exactly one refresh interval old and the
\* identity unchanged: the request started an exchange.
C25_Witness ==
  /\ pending # EmptyBag
  /\ ~Falsy(currentApiKey)
  /\ lastRefreshTime # 0 /\ (now - lastRefreshTime) * TimeUnitHours = 6
  /\ \E r \in ActiveRecords("refresh") :
       cachedRefreshTokenId = r.id /\ cachedRefreshTokenValue = r.value

\* The provider's answers that are failures of the exchange.
Failures == {resp \in Responses("rt_A", FALSE) : resp.kind # "ok"}

\* C26. An exchange that ends with a transport failure or a non-200 answer
\* leaves the cached access token, the time of the last refresh, the cached
\* refresh-token identity and the token store as they were, and records the
\* outcome "error" with the error message in AuthStatus.
C26_FailureKeepsCache ==
  [][\A p \in BagToSet(pending) :
       Completed(p)
       => \A resp \in Failures :
            CompletionStep(p, resp)
            => /\ currentApiKey' = currentApiKey
               /\ lastRefreshTime' = lastRefreshTime
               /\ cachedRefreshTokenId' = cachedRefreshTokenId
               /\ cachedRefreshTokenValue' = cachedRefreshTokenValue
               /\ tokenStore' = tokenStore
               /\ authStatus'.lastRefreshStatus = "error"
               /\ authStatus'.lastRefreshError = ErrorMessage(resp)
    ]_vars

\* An exchange failed while an access token was cached; the token is still
\* there.
C26_Witness ==
  /\ authStatus.lastRefreshStatus = "error"
  /\ ~Falsy(currentApiKey)
  /\ lastRefreshTime # 0

\* The provider's 200 answers that carry no access token.
EmptyAnswers ==
  {resp \in Responses("rt_A", FALSE) : resp.kind = "ok" /\ Falsy(resp.access_token)}

\* C30. When the provider answers 200 without an access token, the resolve
\* call that started the exchange fails with status 500 and the message
\* "Refresh token did not return access token", and returns no header.
C30_EmptyAnswerFails ==
  [][\A p \in BagToSet(pending) :
       Completed(p)
       => \A resp \in EmptyAnswers :
            CompletionStep(p, resp)
            => /\ lastCall'.auth = p.auth
               /\ lastCall'.outcome = "throw"
               /\ lastCall'.status = "500"
               /\ lastCall'.message = "Refresh token did not return access token"
               /\ lastCall'.header = NULL
    ]_vars

\* A resolve call has failed on a 200 answer without an access token.
C30_Witness ==
  /\ lastCall.outcome = "throw"
  /\ lastCall.message = "Refresh token did not return access token"
  /\ authStatus.lastRefreshStatus = "success"

\* The failure resp of exchange p is delivered to its caller in this step.
FailureDelivered(p, resp) ==
  /\ refreshApiKeyResume(p, resp)
  /\ UNCHANGED <<AUTH_TOKEN, requestLogs, dashboardAuthenticated, nextId, now, disk, phase, lastAdmin>>

\* C27. There is no automatic retry: the number of exchanges in flight grows
\* only in a step of a resolve call, and then by exactly one; the step that
\* delivers a failed exchange to its caller leaves one exchange fewer in
\* flight, so a new exchange needs a new resolve call.
C27_NoRetry ==
  [][/\ BagCardinality(pending') > BagCardinality(pending)
        => /\ BagCardinality(pending') = BagCardinality(pending) + 1
           /\ \E a \in ClockEnv.auths : ResolveStep(a, ClockEnv)
     /\ \A p \in BagToSet(pending) : \A resp \in Failures :
          FailureDelivered(p, resp)
          => BagCardinality(pending') = BagCardinality(pending) - 1
    ]_vars

\* An exchange has failed, its caller has the error, and nothing is in
\* flight.
C27_Witness ==
  /\ pending = EmptyBag
  /\ authStatus.lastRefreshStatus = "error"
  /\ lastCall.outcome = "throw"
  /\ lastCall.message \in {ErrorMessage(resp) : resp \in Failures}

\* C21. While a factory key is active no refresh exchange is started: neither
\* the start of the process nor a resolve call sends the refresh token to the
\* provider when the store it works on has an active factory key.
C21_FactorySkipsRefresh ==
  [][/\ (phase # "refreshing" /\ phase' = "refreshing")
        => getActiveFactoryKey(tokenStore') = NoToken
     /\ BagCardinality(pending') > BagCardinality(pending)
        => getActiveFactoryKey(tokenStore) = NoToken
    ]_vars

\* C22. After a start with FACTORY_API_KEY set, the active factory key, the
\* one a resolve with the admin secret returns, is the key of the environment,
\* whatever the persisted file held.
C22_EnvKeyWins ==
  [][\A envFactory \in DashEnv.envFactory :
       NonBlank(envFactory)
       => \A envRefresh \in DashEnv.envRefresh : \A legacy \in DashEnv.legacy :
            (StartupStep(envFactory, envRefresh, legacy, DashEnv) /\ phase' # "failed")
            => /\ getActiveFactoryKey(tokenStore') # NoToken
               /\ getActiveFactoryKey(tokenStore').value = Trim(envFactory)
    ]_vars

\* The session of a request is authenticated.
Authenticated(session) == session # NULL /\ dashboardAuthenticated[session]

\* The step is a request of the session to one of the gated routes.
GatedRequest(session) ==
  \/ ApiState(session)
  \/ \E type \in Types :
       \/ \E value \in GateEnv.values[type] :
            ApiTokensPost(session, type, value, NULL, GateEnv)
       \/ \E id \in IdInputs :
            \/ ApiTokensDelete(session, type, id)
            \/ ApiTokensActivate(session, type, id)
            \/ \E answer \in GateEnv.usage : ApiTokensUsage(session, type, id, answer)

\* C23. A request to a gated route whose session is not authenticated is
\* answered 401 and leaves the store and the file as they were; a session
\* becomes authenticated only in a login whose trimmed token is the configured
\* AUTH_TOKEN, and never when AUTH_TOKEN is not set; a logout leaves the
\* session unauthenticated.
C23_Gate ==
  [][/\ \A session \in SessionInputs :
          (~Authenticated(session) /\ GatedRequest(session))
          => /\ lastAdmin'.status = "401"
             /\ tokenStore' = tokenStore
             /\ disk' = disk
     /\ \A session \in SessionIds :
          /\ (~dashboardAuthenticated[session] /\ dashboardAuthenticated'[session])
             => /\ ~Falsy(AUTH_TOKEN)
                /\ \E token \in GateEnv.tokens :
                     /\ LoginStep(session, token)
                     /\ ~Falsy(token) /\ Trim(token) = AUTH_TOKEN
          /\ Falsy(AUTH_TOKEN) => ~dashboardAuthenticated'[session]
          /\ LogoutStep(session) => ~dashboardAuthenticated'[session]
    ]_vars

\* One session has logged in and added a key; a request of another session,
\* which has not logged in, has been answered 401.
C23_Witness ==
  /\ lastAdmin.status = "401"
  /\ tokenStore.factoryKeys # <<>>
  /\ \E s1, s2 \in SessionIds : dashboardAuthenticated[s1] /\ ~dashboardAuthenticated[s2]

\* The provider's 200 answers.
OkAnswers == {resp \in Responses("rt_A", FALSE) : resp.kind = "ok"}

\* C31. An exchange ends with the outcome "success" only for a 200 answer
\* that carries an access token, which is then the cached one; a 200 answer
\* without an access token records no success and leaves the cached access
\* token as it was.
C31_SuccessCachesToken ==
  [][\A p \in BagToSet(pending) :
       Completed(p)
       => \A resp \in OkAnswers :
            CompletionStep(p, resp)
            => IF Falsy(resp.access_token)
               THEN /\ authStatus'.lastRefreshStatus # "success"
                    /\ currentApiKey' = currentApiKey
               ELSE /\ authStatus'.lastRefreshStatus = "success"
                    /\ currentApiKey' = resp.access_token
    ]_vars

\* C32. Every resolve call that returns a credential updates AuthStatus: the
\* last source is the source returned, lastUsedAt is the time the call was
\* made, and the masked-token field of the source (the active access token
\* for factory and refresh, the last client token for client) holds the
\* masked form of the credential returned.
C32_ResolveUpdatesStatus ==
  [][/\ \A a \in UseEnv.auths :
          (pending' = pending /\ ResolveStep(a, UseEnv) /\ lastCall'.outcome = "return")
          => /\ authStatus'.lastSource = lastCall'.source
             /\ authStatus'.lastUsedAt = Iso(now)
             /\ lastCall'.source = "factory"
                => /\ lastCall'.header = "Bearer " \o getActiveFactoryKey(tokenStore).value
                   /\ authStatus'.activeAccessTokenSnippet =
                        maskToken(getActiveFactoryKey(tokenStore).value)
             /\ lastCall'.source = "refresh"
                => /\ lastCall'.header = "Bearer " \o currentApiKey
                   /\ authStatus'.activeAccessTokenSnippet = maskToken(currentApiKey)
             /\ lastCall'.source = "client"
                => /\ lastCall'.header = a
                   /\ authStatus'.lastClientTokenSnippet =
                        maskToken(ParsedHeaders[a].token)
     /\ \A p \in BagToSet(pending) :
          Completed(p)
          => \A resp \in OkAnswers :
               (CompletionStep(p, resp) /\ lastCall'.outcome = "return")
               => /\ authStatus'.lastSource = "refresh"
                  /\ lastCall'.source = "refresh"
                  /\ authStatus'.lastUsedAt = Iso(p.timestamp)
                  /\ lastCall'.header = "Bearer " \o resp.access_token
                  /\ authStatus'.activeAccessTokenSnippet = maskToken(resp.access_token)
    ]_vars

\* A call with the admin secret made at one clock reading has returned the
\* refreshed token at the next one, and the status carries the call's time.
C32_Witness ==
  /\ lastCall.outcome = "return" /\ lastCall.source = "refresh"
  /\ authStatus.lastSource = "refresh"
  /\ now = 2 /\ authStatus.lastUsedAt = Iso(1)
  /\ lastRefreshTime = 2

\* C33. A restart in an unchanged environment, from the store the previous
\* run persisted, adds no record and leaves both active ids as the file has
\* them, whatever the operator did and whatever the provider rotated in the
\* previous run.
C33_RestartIdempotent ==
  [][(phase = "down" /\ disk.kind = "store")
     => \A envFactory \in RestartEnv.envFactory :
        \A envRefresh \in RestartEnv.envRefresh :
        \A legacy \in RestartEnv.legacy :
          (StartupStep(envFactory, envRefresh, legacy, RestartEnv) /\ phase' # "failed")
          => /\ Len(tokenStore'.factoryKeys) = Len(disk.store.factoryKeys)
             /\ Len(tokenStore'.refreshTokens) = Len(disk.store.refreshTokens)
             /\ tokenStore'.activeFactoryKeyId = disk.store.activeFactoryKeyId
             /\ tokenStore'.activeRefreshTokenId = disk.store.activeRefreshTokenId
    ]_vars

\* C34. After a start from a persisted file that parses, each kind's active
\* id is null or the id of a record of the kind; and a kind for which the
\* environment or the legacy file supplies a token has an active record.
C34_StartupPointers ==
  [][disk.kind \in {"store", "missing"}
     => \A envFactory \in LoadEnv.envFactory :
        \A envRefresh \in LoadEnv.envRefresh :
        \A legacy \in LoadEnv.legacy :
          (StartupStep(envFactory, envRefresh, legacy, LoadEnv) /\ phase' # "failed")
          => /\ \A type \in Types :
                  \/ ActiveId(tokenStore', type) = NULL
                  \/ \E r \in RecordsOf(tokenStore', type) :
                       r.id = ActiveId(tokenStore', type)
             /\ NonBlank(envFactory) => getActiveFactoryKey(tokenStore') # NoToken
             /\ (NonBlank(envRefresh) \/ NonBlank(legacy.refresh_token))
                => getActiveRefreshToken(tokenStore') # NoToken
    ]_vars

\* C35. Mutations persist synchronously: once an add, a remove, an activate
\* or a rotation write-back has returned without error, the file holds the
\* store that is in memory, both collections and both active ids.
C35_PersistedEqualsMemory ==
  [][(tokenStore' # tokenStore \/ disk' # disk) => disk' = persistStore(tokenStore')]_vars

C37_ActiveIffNonEmpty ==
  \A type \in Types :
    /\ ActiveId(tokenStore, type) = NULL <=> Collection(tokenStore, type) = <<>>
    /\ ActiveId(tokenStore, type) # NULL
       => \E r \in RecordsOf(tokenStore, type) : r.id = ActiveId(tokenStore, type)

\* The refresh record holds a rotated secret and is active; the only factory
\* key has been removed and the factory kind has no active id.
C37_Witness ==
  /\ \E r \in RecordsOf(tokenStore, "refresh") :
       r.value = Rotated("rt_A") /\ r.id = tokenStore.activeRefreshTokenId
  /\ tokenStore.factoryKeys = <<>>
  /\ tokenStore.activeFactoryKeyId = NULL
  /\ nextId = 3

\* C38. The engine never undoes the operator's choice: while the last request
\* of the operator is a successful activation of the refresh record X, the
\* active refresh id is X, also after an exchange that started before the
\* activation has ended with a rotated refresh token.
C38_ActivationStands ==
  (lastAdmin.op = "activate" /\ lastAdmin.type = "refresh" /\ lastAdmin.status = "200")
  => tokenStore.activeRefreshTokenId = lastAdmin.arg

\* The provider's answers that carry an access token and a rotated refresh
\* token.
RotatingAnswers(sent) ==
  {resp \in Responses(sent, TRUE) :
     resp.kind = "ok" /\ ~Falsy(resp.access_token) /\ ~Falsy(resp.refresh_token)}

\* The cache belongs to the active refresh record, whose secret is a rotated
\* one, and holds an access token less than 6 hours old.
RotatedCacheFresh ==
  /\ getActiveFactoryKey(tokenStore) = NoToken
  /\ getActiveRefreshToken(tokenStore) # NoToken
  /\ IsRotated(getActiveRefreshToken(tokenStore).value)
  /\ cachedRefreshTokenId = getActiveRefreshToken(tokenStore).id
  /\ cachedRefreshTokenValue = getActiveRefreshToken(tokenStore).value
  /\ ~Falsy(currentApiKey)
  /\ lastRefreshTime # 0 /\ (now - lastRefreshTime) * TimeUnitHours < 6

\* C39. A rotation does not invalidate the access token of its own exchange:
\* the exchange that returns with a rotated refresh token leaves the cached
\* refresh-token value equal to the active record's secret and the access
\* token cached; and a resolve with the admin secret that finds this cache
\* less than 6 hours old returns the cached access token, starts no exchange
\* and leaves the cache as it is.
C39_RotationKeepsToken ==
  [][/\ \A p \in BagToSet(pending) :
          Completed(p)
          => \A resp \in RotatingAnswers(p.refresh_token) :
               (CompletionStep(p, resp) /\ lastCall'.outcome = "return")
               => /\ currentApiKey' = resp.access_token
                  /\ lastRefreshTime' = now
                  /\ cachedRefreshTokenValue' = resp.refresh_token
                  /\ getActiveRefreshToken(tokenStore') # NoToken
                  /\ getActiveRefreshToken(tokenStore').id = cachedRefreshTokenId'
                  /\ getActiveRefreshToken(tokenStore').value = cachedRefreshTokenValue'
     /\ RotatedCacheFresh
        => \A a \in RotateEnv.auths :
             (PresentsSecret(a) /\ ResolveStep(a, RotateEnv))
             => /\ pending' = pending
                /\ lastCall'.outcome = "return"
                /\ lastCall'.source = "refresh"
                /\ lastCall'.header = "Bearer " \o currentApiKey
                /\ currentApiKey' = currentApiKey
                /\ cachedRefreshTokenValue' = cachedRefreshTokenValue
    ]_vars

====
